---- MODULE Spec2Model ----
(***************************************************************************)
(* A model of the dynamic gRPC client of JasterV/grab (granc).              *)
(*                                                                         *)
(* A client holds a connection state and, while a call is running, the     *)
(* position of that call in its linear sequence of steps: schema           *)
(* resolution, service and method lookup, dispatch on the method's         *)
(* cardinality, readiness wait, request construction, invocation and       *)
(* collection of a response stream.  The peer and the transport are the    *)
(* environment: their answers are nondeterministic choices.                *)
(*                                                                         *)
(* Strings whose characters matter (service and method names, header keys  *)
(* and values, paths) are sequences of atoms: an atom is a run of word     *)
(* characters or a single separator character such as " " or "\n".         *)
(***************************************************************************)
EXTENDS Integers, Sequences, FiniteSets, TLC

VARIABLES conn, bundle, peer, call, last, refl

vars == <<conn, bundle, peer, call, last, refl>>

----------------------------------------------------------------------------
(* Bounds *)

MaxItems == 2       \* longest request array and longest response stream
MaxHeaders == 2     \* longest header list of a request
MaxBlobs == 3       \* most file blobs in one discovery response
MaxRounds == 2      \* discovery rounds started over the life of the model

----------------------------------------------------------------------------
(* Strings *)

SP == " "
NL == "\n"

IsSpace(a) == a = SP \/ a = NL

RECURSIVE TrimStart(_)
TrimStart(s) ==
    IF s # <<>> /\ IsSpace(Head(s)) THEN TrimStart(Tail(s)) ELSE s

RECURSIVE TrimEnd(_)
TrimEnd(s) ==
    IF s # <<>> /\ IsSpace(s[Len(s)]) THEN TrimEnd(SubSeq(s, 1, Len(s) - 1)) ELSE s

\* str::trim
Trim(s) == TrimEnd(TrimStart(s))

----------------------------------------------------------------------------
(* Structured values (serde_json::Value) *)

JNull == [t |-> "null", key |-> "", val |-> "", items |-> <<>>]
JString(v) == [t |-> "string", key |-> "", val |-> v, items |-> <<>>]
JObject(k, v) == [t |-> "object", key |-> k, val |-> v, items |-> <<>>]
JArray(xs) == [t |-> "array", key |-> "", val |-> "", items |-> xs]

SeqsUpTo(S, n) == UNION {[1..k -> S] : k \in 0..n}

\* the elements a request array is built from
ItemObjects == {JObject("message", "A"), JObject("message", "B")}

\* the request bodies the model draws from
Bodies ==
    {JObject("message", "A"), JObject("unknown_field", "A"), JString("A")}
        \cup {JArray(xs) : xs \in SeqsUpTo(ItemObjects, MaxItems)}

----------------------------------------------------------------------------
(* Status and results *)

StatusOk == [code |-> "Ok", message |-> ""]
Status(code, message) == [code |-> code, message |-> message]

\* Result<serde_json::Value, tonic::Status>
ROk(v) == [ok |-> TRUE, value |-> v, status |-> StatusOk]
RErr(st) == [ok |-> FALSE, value |-> JNull, status |-> st]

\* DynamicResponse
Unary(res) == [variant |-> "Unary", res |-> res, items |-> <<>>]
StreamingOk(items) == [variant |-> "Streaming", res |-> ROk(JNull), items |-> items]
StreamingErr(st) == [variant |-> "Streaming", res |-> RErr(st), items |-> <<>>]
NoResponse == [variant |-> "none", res |-> ROk(JNull), items |-> <<>>]

\* the errors of DynamicRequestError, GrpcRequestError and ClientError; arg is
\* the string the error carries (a name or a header key), arg2 a second one
Error(kind, arg) == [kind |-> kind, arg |-> arg, arg2 |-> <<>>]
Error2(kind, arg, arg2) == [kind |-> kind, arg |-> arg, arg2 |-> arg2]
NoError == Error("none", <<>>)

\* Result<DynamicResponse, DynamicRequestError>
NoResult == [tag |-> "none", resp |-> NoResponse, err |-> NoError]
Ok(resp) == [tag |-> "Ok", resp |-> resp, err |-> NoError]
Err(e) == [tag |-> "Err", resp |-> NoResponse, err |-> e]

----------------------------------------------------------------------------
(* Schema: the echo service of the test suite *)

Method(name, cs, ss) ==
    [name |-> name, client_streaming |-> cs, server_streaming |-> ss,
     parent |-> <<"echo.EchoService">>,
     input |-> "echo.EchoRequest", output |-> "echo.EchoResponse"]

NoMethod ==
    [name |-> <<>>, client_streaming |-> FALSE, server_streaming |-> FALSE,
     parent |-> <<>>, input |-> "", output |-> ""]

EchoService ==
    [full_name |-> <<"echo.EchoService">>,
     methods |-> << Method(<<"UnaryEcho">>, FALSE, FALSE),
                    Method(<<"ServerStreamingEcho">>, FALSE, TRUE),
                    Method(<<"ClientStreamingEcho">>, TRUE, FALSE),
                    Method(<<"BidirectionalEcho">>, TRUE, TRUE) >>]

\* a DescriptorPool: its services and the fields of its messages
EchoPool ==
    [services |-> {EchoService},
     fields |-> [m \in {"echo.EchoRequest", "echo.EchoResponse"} |-> {"message"}]]

EmptyPool == [services |-> {}, fields |-> << >>]

\* the byte blobs a caller may load: FILE_DESCRIPTOR_SET, vec![0, 1, 2, 3],
\* and a well-formed set in which a type reference never resolves
Bundles == {"FILE_DESCRIPTOR_SET", "corrupt", "unresolved"}

\* what the files of the unresolved set declare: the service, without the
\* messages its methods refer to
PartialPool == [services |-> {EchoService}, fields |-> << >>]

\* DescriptorPoolDecode building a pool from whatever the bytes declare
DescriptorPoolDecodeLenient(bytes) ==
    [ok |-> TRUE,
     pool |-> IF bytes = "FILE_DESCRIPTOR_SET" THEN EchoPool
              ELSE IF bytes = "unresolved" THEN PartialPool ELSE EmptyPool]

\* DescriptorPool::decode
DescriptorPoolDecode(bytes) ==
    IF bytes = "FILE_DESCRIPTOR_SET"
    THEN [ok |-> TRUE, pool |-> EchoPool]
    ELSE [ok |-> FALSE, pool |-> EmptyPool]

\* the names a request may carry
ServiceNames ==
    { <<"echo.EchoService">>, <<"echo.echoservice">>,
      <<SP, "echo.EchoService", SP>>, <<"echo.GhostService">> }

MethodNames ==
    { <<"UnaryEcho">>, <<"ServerStreamingEcho">>, <<"ClientStreamingEcho">>,
      <<"BidirectionalEcho">>, <<"GhostMethod">>, <<"unaryecho">>,
      <<SP, "UnaryEcho">> }

\* the header pairs a request may carry
HeaderPairs ==
    { << <<"x-id">>, <<"1">> >>, << <<"x-id">>, <<"2">> >>,
      << <<"x-id">>, <<"a", NL, "b">> >>,
      << <<"bad", SP, "key">>, <<"1">> >>,
      << <<"bad", SP, "key">>, <<"a", NL, "b">> >> }
HeaderLists == SeqsUpTo(HeaderPairs, MaxHeaders)

\* DynamicRequest: the requests of a client that holds its schema source
Requests ==
    [file_descriptor_set : {"none"}, service : ServiceNames, method : MethodNames,
     body : Bodies, headers : HeaderLists]

\* DynamicRequest: the requests that bring their bundle with them
BundledRequests ==
    [file_descriptor_set : Bundles, service : { <<"echo.EchoService">> },
     method : { <<"UnaryEcho">>, <<"ServerStreamingEcho">> },
     body : { JObject("message", "A") }, headers : { <<>> }]

NoRequest ==
    [file_descriptor_set |-> "none", service |-> <<>>, method |-> <<>>,
     body |-> JNull, headers |-> <<>>]

----------------------------------------------------------------------------
(* Pure functions of the call path *)

\* DescriptorPool::get_service_by_name: the services whose fully qualified
\* name is the requested name
GetServiceByName(pool, name) == {s \in pool.services : s.full_name = name}

\* service.methods().find(|m| m.name() == request.method): the position of
\* the first method with the requested name, 0 when there is none
FindMethod(service, name) ==
    LET hits == {i \in 1..Len(service.methods) : service.methods[i].name = name}
    IN  IF hits = {} THEN 0 ELSE CHOOSE i \in hits : \A j \in hits : i <= j

\* DispatchPattern with the two single-sided streaming arms exchanged
DispatchPatternSwapped(method) ==
    IF ~method.client_streaming /\ ~method.server_streaming THEN "unary"
    ELSE IF ~method.client_streaming /\ method.server_streaming THEN "client_streaming"
    ELSE IF method.client_streaming /\ ~method.server_streaming THEN "server_streaming"
    ELSE "bidirectional_streaming"

\* the match on (is_client_streaming, is_server_streaming)
DispatchPattern(method) ==
    IF ~method.client_streaming /\ ~method.server_streaming THEN "unary"
    ELSE IF ~method.client_streaming /\ method.server_streaming THEN "server_streaming"
    ELSE IF method.client_streaming /\ ~method.server_streaming THEN "client_streaming"
    ELSE "bidirectional_streaming"

\* the DynamicResponse variant a pattern's outcome is wrapped in
ResponseVariant(pattern) ==
    IF pattern \in {"unary", "client_streaming"} THEN "Unary" ELSE "Streaming"

\* JsonArrayToStream without the match on the value's kind
JsonArrayToStreamLax(json) == [ok |-> TRUE, items |-> json.items]

\* JsonArrayToStream refusing an array without elements
JsonArrayToStreamNonEmpty(json) ==
    IF json.t = "array" /\ json.items # <<>>
    THEN [ok |-> TRUE, items |-> json.items]
    ELSE [ok |-> FALSE, items |-> <<>>]

\* json_array_to_stream: the items of an array, an error for anything else
JsonArrayToStream(json) ==
    IF json.t = "array"
    THEN [ok |-> TRUE, items |-> json.items]
    ELSE [ok |-> FALSE, items |-> <<>>]

\* the request messages a pattern hands to the transport
RECURSIVE Reverse(_)
Reverse(s) == IF s = <<>> THEN <<>> ELSE Append(Reverse(Tail(s)), Head(s))

\* RequestMessages feeding the array to the stream last element first
RequestMessagesReversed(pattern, body) ==
    IF pattern \in {"client_streaming", "bidirectional_streaming"}
    THEN Reverse(JsonArrayToStream(body).items)
    ELSE <<body>>

\* the request messages of a call: the elements of the array, or the payload
RequestMessages(pattern, body) ==
    IF pattern \in {"client_streaming", "bidirectional_streaming"}
    THEN JsonArrayToStream(body).items
    ELSE <<body>>

\* MetadataKey::from_str: a header name is not empty and holds no whitespace
MetadataKeyFromStr(k) == k # <<>> /\ \A i \in 1..Len(k) : ~IsSpace(k[i])

\* MetadataValue::from_str: visible ASCII and spaces, no control characters
MetadataValueFromStr(v) == \A i \in 1..Len(v) : v[i] # NL

\* MetadataInsert keeping the values the key already has
MetadataAppend(md, k, v) == md \cup {<<k, v>>}

\* metadata_mut().insert(key, val): the value of key is replaced
MetadataInsert(md, k, v) == {p \in md : p[1] # k} \cup {<<k, v>>}

\* build_request: the header pairs are parsed in list order, the key before
\* the value; the first failure ends the loop
RECURSIVE BuildRequestFrom(_, _)
BuildRequestFrom(headers, md) ==
    IF headers = <<>> THEN [ok |-> TRUE, metadata |-> md, err |-> NoError]
    ELSE LET k == Head(headers)[1]
             v == Head(headers)[2]
         IN  IF ~MetadataKeyFromStr(k)
             THEN [ok |-> FALSE, metadata |-> {}, err |-> Error("InvalidMetadataKey", k)]
             ELSE IF ~MetadataValueFromStr(v)
             THEN [ok |-> FALSE, metadata |-> {}, err |-> Error("InvalidMetadataValue", k)]
             ELSE BuildRequestFrom(Tail(headers), MetadataInsert(md, k, v))

\* build_request parsing the value of a pair before its key
RECURSIVE BuildRequestFromValueFirst(_, _)
BuildRequestFromValueFirst(headers, md) ==
    IF headers = <<>> THEN [ok |-> TRUE, metadata |-> md, err |-> NoError]
    ELSE LET k == Head(headers)[1]
             v == Head(headers)[2]
         IN  IF ~MetadataValueFromStr(v)
             THEN [ok |-> FALSE, metadata |-> {}, err |-> Error("InvalidMetadataValue", k)]
             ELSE IF ~MetadataKeyFromStr(k)
             THEN [ok |-> FALSE, metadata |-> {}, err |-> Error("InvalidMetadataKey", k)]
             ELSE BuildRequestFromValueFirst(Tail(headers), MetadataInsert(md, k, v))

BuildRequestValueFirst(headers) == BuildRequestFromValueFirst(headers, {})

\* BuildRequest inserting the pairs without parsing them
BuildRequestUnparsed(headers) ==
    [ok |-> TRUE, metadata |-> {headers[i] : i \in 1..Len(headers)}, err |-> NoError]

BuildRequest(headers) == BuildRequestFrom(headers, {})

\* HttpPath without the leading separator
HttpPathNoLeadingSlash(method) == method.parent \o <<"/">> \o method.name

\* http_path: format!("/{}/{}", parent_service().full_name(), name())
HttpPath(method) == <<"/">> \o method.parent \o <<"/">> \o method.name

\* the codec's encoder accepts an object whose keys are fields of the
\* method's input message
\* the field numbers of the echo messages
FieldNumbers == [k \in {"message"} |-> 1]
FieldName(number) == CHOOSE k \in DOMAIN FieldNumbers : FieldNumbers[k] = number

\* Encode writing the field without its value
EncodeDroppingValue(pool, type, json) ==
    IF json.t = "object" /\ json.key \in pool.fields[type]
    THEN <<[number |-> FieldNumbers[json.key], payload |-> ""]>>
    ELSE <<>>

\* the encoder of the codec: the fields of the message as they go on the wire
Encode(pool, type, json) ==
    IF json.t = "object" /\ json.key \in pool.fields[type]
    THEN <<[number |-> FieldNumbers[json.key], payload |-> json.val]>>
    ELSE <<>>

\* the decoder of the codec: the value rebuilt from the fields on the wire
Decode(pool, type, wire) ==
    IF wire # <<>> /\ FieldName(wire[1].number) \in pool.fields[type]
    THEN JObject(FieldName(wire[1].number), wire[1].payload)
    ELSE JObject("", "")

\* a message as the other side reads it
Carried(pool, type, json) == Decode(pool, type, Encode(pool, type, json))
CarriedAll(pool, type, msgs) == [i \in 1..Len(msgs) |-> Carried(pool, type, msgs[i])]

\* the codec accepts a value whose keys are fields of the input message
EncodeOk(pool, method, json) ==
    json.t = "object" /\ json.key \in pool.fields[method.input]

\* EncodeFailure with the status class the comments of the tests name
EncodeFailureInvalidArgument ==
    Status("InvalidArgument", "JSON structure does not match Protobuf schema")

\* the status of a request the codec does not encode
EncodeFailure ==
    Status("Internal", "JSON structure does not match Protobuf schema")

----------------------------------------------------------------------------
(* State *)

Clients == {"c1"}

\* the callers that own a RemoteReflectionService connected to the peer
Resolvers == {"r1", "r2"}

\* the outcome of fetch_method_descriptor
RResult(tag, err) == [tag |-> tag, err |-> err]

\* what one read of the response stream yields
Response(kind, blobs) == [kind |-> kind, blobs |-> blobs]

\* a resolver between two calls of fetch_method_descriptor
IdleRound ==
    [pc |-> "idle", symbol |-> <<>>, stream |-> 0, response |-> Response("none", <<>>),
     fd_set |-> <<>>, result |-> RResult("none", "")]

\* no discovery stream was opened yet and no resolver is in a round
NoRounds == [streams |-> <<>>, round |-> [r \in Resolvers |-> IdleRound]]

ConnStates == {"DiscoverySchema", "BundleSchema", "Disconnected"}

\* the peer a client is connected to: one that serves the discovery
\* (reflection) service, one that does not, or none for an offline client
PeerKinds == {"reflecting", "plain"}

\* the services a peer serves
PeerPool == EchoPool
ReflectionServiceName == <<"grpc.reflection.v1.ServerReflection">>

PeerFailure == Status("Unavailable", "")

IdleCall ==
    [pc |-> "idle", entry |-> "none", req |-> NoRequest, pool |-> EmptyPool,
     symbol |-> <<>>, method |-> NoMethod, pattern |-> "none", trace |-> <<>>,
     metadata |-> {}, path |-> <<>>, sent |-> <<>>, items |-> <<>>, result |-> NoResult]

NoOp ==
    [op |-> "none", arg |-> "none", ok |-> TRUE, names |-> {}, kind |-> "",
     err |-> NoError]

\* a step of the call's trace
InTrace(c, step) == \E i \in 1..Len(call[c].trace) : call[c].trace[i] = step

\* a call has returned to its caller
Returned(c) == call[c].pc = "done"

\* the client is free to start an operation
Free(c) == call[c].pc = "idle"

Finish(c, result) ==
    call' = [call EXCEPT ![c].pc = "done", ![c].result = result]

FinishTraced(c, step, result) ==
    call' = [call EXCEPT ![c].pc = "done", ![c].result = result,
                         ![c].trace = Append(@, step)]

\* GrancClient::connect and GrancClient::offline: a client starts connected
\* and resolving its schema by discovery, or offline with a decoded bundle
Init ==
    /\ conn \in [Clients -> {"DiscoverySchema", "Disconnected"}]
    /\ bundle = [c \in Clients |->
                    IF conn[c] = "Disconnected" THEN "FILE_DESCRIPTOR_SET" ELSE "none"]
    /\ peer \in [Clients -> PeerKinds \cup {"none"}]
    /\ \A c \in Clients : (peer[c] = "none") <=> (conn[c] = "Disconnected")
    /\ call = [c \in Clients |-> IdleCall]
    /\ last = [c \in Clients |-> NoOp]
    /\ refl = NoRounds

----------------------------------------------------------------------------
(* Connection state machine *)

\* CanDispatch as a client without connection states would have it
CanDispatchAlways(state) == TRUE

\* the states in which the call-dispatch operation exists
CanDispatch(state) == state \in {"DiscoverySchema", "BundleSchema"}

\* with_file_descriptor: attach a bundle to a connected client
AttachBundle(c, bytes) ==
    LET d == DescriptorPoolDecode(bytes)
    IN  IF d.ok
        THEN /\ conn' = [conn EXCEPT ![c] = "BundleSchema"]
             /\ bundle' = [bundle EXCEPT ![c] = bytes]
             /\ last' = [last EXCEPT ![c] =
                    [NoOp EXCEPT !.op = "with_file_descriptor", !.arg = bytes]]
        ELSE /\ UNCHANGED <<conn, bundle>>
             /\ last' = [last EXCEPT ![c] =
                    [NoOp EXCEPT !.op = "with_file_descriptor", !.arg = bytes,
                                 !.ok = FALSE, !.err = Error("DescriptorError", <<>>)]]

\* WithFileDescriptor without the check of the state it starts from
WithFileDescriptorUnguarded(c) ==
    /\ Free(c)
    /\ \E bytes \in Bundles : AttachBundle(c, bytes)
    /\ UNCHANGED <<peer, call, refl>>

WithFileDescriptor(c) ==
    /\ conn[c] = "DiscoverySchema"
    /\ Free(c)
    /\ \E bytes \in Bundles : AttachBundle(c, bytes)
    /\ UNCHANGED <<peer, call, refl>>

\* ListServicesResult asking the peer whenever there is one
ListServicesResultFromPeer(c) ==
    IF peer[c] = "reflecting"
    THEN [NoOp EXCEPT !.op = "list_services",
            !.names = {s.full_name : s \in PeerPool.services}
                          \cup {ReflectionServiceName}]
    ELSE IF conn[c] = "DiscoverySchema"
    THEN [NoOp EXCEPT !.op = "list_services", !.ok = FALSE,
            !.err = Error("ReflectionResolve", <<"ServerStreamInitFailed">>)]
    ELSE [NoOp EXCEPT !.op = "list_services",
            !.names = {s.full_name : s \in DescriptorPoolDecode(bundle[c]).pool.services}]

\* list_services: the services of the loaded bundle, or in the discovery
\* state the services the peer lists
ListServicesResult(c) ==
    IF conn[c] = "DiscoverySchema"
    THEN IF peer[c] = "reflecting"
         THEN [NoOp EXCEPT !.op = "list_services",
                 !.names = {s.full_name : s \in PeerPool.services}
                               \cup {ReflectionServiceName}]
         ELSE [NoOp EXCEPT !.op = "list_services", !.ok = FALSE,
                 !.err = Error("ReflectionResolve", <<"ServerStreamInitFailed">>)]
    ELSE [NoOp EXCEPT !.op = "list_services",
            !.names = {s.full_name : s \in DescriptorPoolDecode(bundle[c]).pool.services}]

ListServices(c) ==
    /\ Free(c)
    /\ last' = [last EXCEPT ![c] = ListServicesResult(c)]
    /\ UNCHANGED <<conn, bundle, peer, call, refl>>

\* the symbols a caller may describe
Symbols == { <<"echo.EchoService">>, <<"echo.EchoRequest">>, <<"echo.Ghost">> }

\* DescriptorKind looking a name up among the messages first and calling
\* what it finds there a service
DescriptorKindSwapped(pool, symbol) ==
    IF \E m \in DOMAIN pool.fields : <<m>> = symbol THEN "ServiceDescriptor"
    ELSE IF GetServiceByName(pool, symbol) # {} THEN "MessageDescriptor"
    ELSE "None"

\* DescriptorPool lookup of a symbol: the kind of descriptor it names
DescriptorKind(pool, symbol) ==
    IF GetServiceByName(pool, symbol) # {} THEN "ServiceDescriptor"
    ELSE IF \E m \in DOMAIN pool.fields : <<m>> = symbol THEN "MessageDescriptor"
    ELSE "None"

\* the operation and the symbol it was asked for
Asked(symbol) == [NoOp EXCEPT !.op = "get_descriptor_by_symbol", !.arg = symbol]

\* GetDescriptorResult raising NotFound for a symbol the bundle lacks
GetDescriptorResultRaising(c, symbol) ==
    IF conn[c] = "DiscoverySchema"
    THEN IF peer[c] # "reflecting"
         THEN [Asked(symbol) EXCEPT !.ok = FALSE,
                 !.err = Error("ReflectionResolve", <<"ServerStreamInitFailed">>)]
         ELSE IF DescriptorKind(PeerPool, symbol) = "None"
         THEN [Asked(symbol) EXCEPT !.ok = FALSE, !.err = Error("NotFound", symbol)]
         ELSE [Asked(symbol) EXCEPT !.names = {symbol},
                 !.kind = DescriptorKind(PeerPool, symbol)]
    ELSE LET pool == DescriptorPoolDecode(bundle[c]).pool
         IN  IF DescriptorKind(pool, symbol) = "None"
             THEN [Asked(symbol) EXCEPT !.ok = FALSE, !.err = Error("NotFound", symbol)]
             ELSE [Asked(symbol) EXCEPT !.names = {symbol},
                     !.kind = DescriptorKind(pool, symbol)]

\* GetDescriptorResult passing the peer's answer on as a resolution failure
GetDescriptorResultUnmapped(c, symbol) ==
    IF conn[c] = "DiscoverySchema"
    THEN IF peer[c] # "reflecting"
         THEN [Asked(symbol) EXCEPT !.ok = FALSE,
                 !.err = Error("ReflectionResolve", <<"ServerStreamInitFailed">>)]
         ELSE IF DescriptorKind(PeerPool, symbol) = "None"
         THEN [Asked(symbol) EXCEPT !.ok = FALSE,
                 !.err = Error("ReflectionResolve", <<"ServerStreamFailure", "NotFound">>)]
         ELSE [Asked(symbol) EXCEPT !.names = {symbol},
                 !.kind = DescriptorKind(PeerPool, symbol)]
    ELSE LET pool == DescriptorPoolDecode(bundle[c]).pool
         IN  [Asked(symbol) EXCEPT
                !.names = IF DescriptorKind(pool, symbol) = "None" THEN {} ELSE {symbol},
                !.kind = DescriptorKind(pool, symbol)]

\* get_descriptor_by_symbol: an optional descriptor from the loaded bundle,
\* or in the discovery state a descriptor or an error
GetDescriptorResult(c, symbol) ==
    IF conn[c] = "DiscoverySchema"
    THEN IF peer[c] # "reflecting"
         THEN [Asked(symbol) EXCEPT !.ok = FALSE,
                 !.err = Error("ReflectionResolve", <<"ServerStreamInitFailed">>)]
         ELSE IF DescriptorKind(PeerPool, symbol) = "None"
         THEN [Asked(symbol) EXCEPT !.ok = FALSE, !.err = Error("NotFound", symbol)]
         ELSE [Asked(symbol) EXCEPT !.names = {symbol},
                 !.kind = DescriptorKind(PeerPool, symbol)]
    ELSE LET pool == DescriptorPoolDecode(bundle[c]).pool
         IN  [Asked(symbol) EXCEPT
                !.names = IF DescriptorKind(pool, symbol) = "None" THEN {} ELSE {symbol},
                !.kind = DescriptorKind(pool, symbol)]

GetDescriptorBySymbol(c) ==
    /\ Free(c)
    /\ \E symbol \in Symbols : last' = [last EXCEPT ![c] = GetDescriptorResult(c, symbol)]
    /\ UNCHANGED <<conn, bundle, peer, call, refl>>

----------------------------------------------------------------------------
(* GrpcClient::dynamic *)

StartDynamic(c) ==
    /\ CanDispatch(conn[c])
    /\ Free(c)
    /\ \E r \in Requests :
          call' = [call EXCEPT ![c] =
                     [IdleCall EXCEPT !.pc = "resolve", !.entry = "dynamic", !.req = r]]
    /\ last' = [last EXCEPT ![c] = NoOp]
    /\ UNCHANGED <<conn, bundle, peer, refl>>

\* request.file_descriptor_set as dynamic() sees it: the bundle that came
\* with the request, else the bundle the client was given, else none
CallBundle(c) ==
    IF call[c].req.file_descriptor_set # "none" THEN call[c].req.file_descriptor_set
    ELSE IF conn[c] = "BundleSchema" THEN bundle[c]
    ELSE "none"

\* the answer of the peer's discovery service to file_descriptor_set_by_symbol
DiscoveryAnswer(kind, symbol) ==
    IF kind # "reflecting"
    THEN [ok |-> FALSE, pool |-> EmptyPool,
          err |-> Error("ReflectionResolve", <<"ServerStreamInitFailed", "Unimplemented">>)]
    ELSE IF GetServiceByName(PeerPool, symbol) = {}
    THEN [ok |-> FALSE, pool |-> EmptyPool,
          err |-> Error("ReflectionResolve", <<"ServerStreamFailure", "NotFound">>)]
    ELSE [ok |-> TRUE, pool |-> PeerPool, err |-> NoError]

\* ResolveSchema going on with an empty pool when discovery fails
ResolveSchemaLenient(c) ==
    /\ call[c].pc = "resolve"
    /\ IF CallBundle(c) # "none"
       THEN LET d == DescriptorPoolDecode(CallBundle(c))
            IN  IF d.ok
                THEN call' = [call EXCEPT ![c].pc = "lookup", ![c].pool = d.pool]
                ELSE Finish(c, Err(Error("DescriptorError", <<>>)))
       ELSE LET symbol == call[c].req.service
                a == DiscoveryAnswer(peer[c], symbol)
            IN  call' = [call EXCEPT ![c].pc = "lookup", ![c].pool = a.pool,
                                     ![c].symbol = symbol,
                                     ![c].trace = Append(@, "discovery")]
    /\ UNCHANGED <<conn, bundle, peer, last, refl>>

\* ResolveSchema asking the peer's discovery service in every state
ResolveSchemaAlwaysDiscovering(c) ==
    /\ call[c].pc = "resolve"
    /\ LET symbol == call[c].req.service
           a == DiscoveryAnswer(peer[c], symbol)
       IN  IF a.ok
           THEN call' = [call EXCEPT ![c].pc = "lookup", ![c].pool = a.pool,
                                     ![c].symbol = symbol,
                                     ![c].trace = Append(@, "discovery")]
           ELSE call' = [call EXCEPT ![c].pc = "done", ![c].result = Err(a.err),
                                     ![c].symbol = symbol,
                                     ![c].trace = Append(@, "discovery")]
    /\ UNCHANGED <<conn, bundle, peer, last, refl>>

\* ResolveSchema keeping the set fetched by discovery as the client's bundle
ResolveSchemaCaching(c) ==
    /\ call[c].pc = "resolve"
    /\ IF CallBundle(c) # "none"
       THEN /\ LET d == DescriptorPoolDecode(CallBundle(c))
               IN  IF d.ok
                   THEN call' = [call EXCEPT ![c].pc = "lookup", ![c].pool = d.pool]
                   ELSE Finish(c, Err(Error("DescriptorError", <<>>)))
            /\ UNCHANGED <<conn, bundle>>
       ELSE LET symbol == call[c].req.service
                a == DiscoveryAnswer(peer[c], symbol)
            IN  IF a.ok
                THEN /\ call' = [call EXCEPT ![c].pc = "lookup", ![c].pool = a.pool,
                                             ![c].symbol = symbol,
                                             ![c].trace = Append(@, "discovery")]
                     /\ conn' = [conn EXCEPT ![c] = "BundleSchema"]
                     /\ bundle' = [bundle EXCEPT ![c] = "FILE_DESCRIPTOR_SET"]
                ELSE /\ call' = [call EXCEPT ![c].pc = "done", ![c].result = Err(a.err),
                                             ![c].symbol = symbol,
                                             ![c].trace = Append(@, "discovery")]
                     /\ UNCHANGED <<conn, bundle>>
    /\ UNCHANGED <<peer, last, refl>>

\* the pool of a call: decoded from the bundle, or fetched by discovery with
\* the request's service name as the symbol
ResolveSchema(c) ==
    /\ call[c].pc = "resolve"
    /\ IF CallBundle(c) # "none"
       THEN LET d == DescriptorPoolDecode(CallBundle(c))
            IN  IF d.ok
                THEN call' = [call EXCEPT ![c].pc = "lookup", ![c].pool = d.pool]
                ELSE Finish(c, Err(Error("DescriptorError", <<>>)))
       ELSE LET symbol == call[c].req.service
                a == DiscoveryAnswer(peer[c], symbol)
            IN  IF a.ok
                THEN call' = [call EXCEPT ![c].pc = "lookup", ![c].pool = a.pool,
                                          ![c].symbol = symbol,
                                          ![c].trace = Append(@, "discovery")]
                ELSE call' = [call EXCEPT ![c].pc = "done", ![c].result = Err(a.err),
                                          ![c].symbol = symbol,
                                          ![c].trace = Append(@, "discovery")]
    /\ UNCHANGED <<conn, bundle, peer, last, refl>>

\* LookupMethod with the two errors exchanged
LookupMethodSwappedErrors(pool, service, method) ==
    LET found == GetServiceByName(pool, service)
    IN  IF found = {}
        THEN [ok |-> FALSE, method |-> NoMethod, err |-> Error("MethodNotFound", method)]
        ELSE LET s == CHOOSE x \in found : TRUE
                 i == FindMethod(s, method)
             IN  IF i = 0
                 THEN [ok |-> FALSE, method |-> NoMethod,
                       err |-> Error("ServiceNotFound", service)]
                 ELSE [ok |-> TRUE, method |-> s.methods[i], err |-> NoError]

\* get_service_by_name and methods().find on the requested names
LookupMethod(pool, service, method) ==
    LET found == GetServiceByName(pool, service)
    IN  IF found = {}
        THEN [ok |-> FALSE, method |-> NoMethod, err |-> Error("ServiceNotFound", service)]
        ELSE LET s == CHOOSE x \in found : TRUE
                 i == FindMethod(s, method)
             IN  IF i = 0
                 THEN [ok |-> FALSE, method |-> NoMethod,
                       err |-> Error("MethodNotFound", method)]
                 ELSE [ok |-> TRUE, method |-> s.methods[i], err |-> NoError]

\* Lookup validating the headers before the names are looked up
LookupHeadersFirst(c) ==
    /\ call[c].pc = "lookup"
    /\ LET l == LookupMethod(call[c].pool, call[c].req.service, call[c].req.method)
           b == BuildRequest(call[c].req.headers)
       IN  IF ~b.ok THEN Finish(c, Err(b.err))
           ELSE IF l.ok
           THEN call' = [call EXCEPT ![c].pc = "dispatch", ![c].method = l.method]
           ELSE Finish(c, Err(l.err))
    /\ UNCHANGED <<conn, bundle, peer, last, refl>>

Lookup(c) ==
    /\ call[c].pc = "lookup"
    /\ LET l == LookupMethod(call[c].pool, call[c].req.service, call[c].req.method)
       IN  IF l.ok
           THEN call' = [call EXCEPT ![c].pc = "dispatch", ![c].method = l.method]
           ELSE Finish(c, Err(l.err))
    /\ UNCHANGED <<conn, bundle, peer, last, refl>>

\* whether the pattern's arm of dynamic() accepts the payload's shape
ShapeAccepted(pattern, body) ==
    pattern \in {"client_streaming", "bidirectional_streaming"}
        => JsonArrayToStream(body).ok

Dispatch(c) ==
    /\ call[c].pc = "dispatch"
    /\ LET p == DispatchPattern(call[c].method)
       IN  IF ShapeAccepted(p, call[c].req.body)
           THEN call' = [call EXCEPT ![c].pc = "ready", ![c].pattern = p]
           ELSE call' = [call EXCEPT ![c].pc = "done", ![c].pattern = p,
                           ![c].result = Err(Error("InvalidJson", <<>>))]
    /\ UNCHANGED <<conn, bundle, peer, last, refl>>

\* AfterReady dropping the result of the wait
AfterReadyUnchecked(c, ready) ==
    call' = [call EXCEPT ![c].pc = "build",
               ![c].trace = Append(@, IF ready THEN "ready" ELSE "ready_failed")]

\* AfterReady waiting a second time when the first wait fails
AfterReadyRetrying(c, ready) ==
    IF ready
    THEN call' = [call EXCEPT ![c].pc = "build", ![c].trace = Append(@, "ready")]
    ELSE IF InTrace(c, "ready_failed")
    THEN FinishTraced(c, "ready_failed", Err(Error("ClientNotReady", <<>>)))
    ELSE call' = [call EXCEPT ![c].trace = Append(@, "ready_failed")]

\* AfterReady on a transport that all the clients share: when the wait
\* fails, it fails for every call that is waiting
AfterReadyShared(c, ready) ==
    IF ready
    THEN call' = [call EXCEPT ![c].pc = "build", ![c].trace = Append(@, "ready")]
    ELSE call' = [d \in DOMAIN call |->
                    IF call[d].pc = "ready"
                    THEN [call[d] EXCEPT !.pc = "done",
                             !.trace = Append(@, "ready_failed"),
                             !.result = Err(Error("ClientNotReady", <<>>))]
                    ELSE call[d]]

\* where a call goes after client.ready().await
AfterReady(c, ready) ==
    IF ready
    THEN call' = [call EXCEPT ![c].pc = "build", ![c].trace = Append(@, "ready")]
    ELSE FinishTraced(c, "ready_failed", Err(Error("ClientNotReady", <<>>)))

Ready(c) ==
    /\ call[c].pc = "ready"
    /\ \E ready \in BOOLEAN : AfterReady(c, ready)
    /\ UNCHANGED <<conn, bundle, peer, last, refl>>

Build(c) ==
    /\ call[c].pc = "build"
    /\ LET b == BuildRequest(call[c].req.headers)
       IN  IF b.ok
           THEN call' = [call EXCEPT ![c].pc = "invoke", ![c].metadata = b.metadata,
                           ![c].path = HttpPath(call[c].method)]
           ELSE Finish(c, Err(b.err))
    /\ UNCHANGED <<conn, bundle, peer, last, refl>>

\* the longest prefix of the request messages the codec encodes
RECURSIVE EncodablePrefix(_, _, _)
EncodablePrefix(pool, method, msgs) ==
    IF msgs = <<>> \/ ~EncodeOk(pool, method, Head(msgs)) THEN <<>>
    ELSE <<Head(msgs)>> \o EncodablePrefix(pool, method, Tail(msgs))

RECURSIVE ConcatVals(_)
ConcatVals(msgs) ==
    IF msgs = <<>> THEN "" ELSE Head(msgs).val \o ConcatVals(Tail(msgs))

\* the echo service's reply to a unary or client-streaming call
PeerReply(pattern, msgs) ==
    IF pattern = "unary" THEN msgs[1] ELSE JObject("message", ConcatVals(msgs))

\* the echo service's i-th item of a response stream
PeerItem(pattern, msgs, i) ==
    IF pattern = "server_streaming"
    THEN JObject("message", msgs[1].val \o " - seq " \o ToString(i - 1))
    ELSE JObject("message", "echo: " \o msgs[i].val)

\* the reply and the items of the peer as the client decodes them
ReceivedReply(c, msgs) ==
    Carried(call[c].pool, call[c].method.output,
            PeerReply(call[c].pattern,
                      CarriedAll(call[c].pool, call[c].method.input, msgs)))

ReceivedItem(c, i) ==
    Carried(call[c].pool, call[c].method.output,
            PeerItem(call[c].pattern,
                     CarriedAll(call[c].pool, call[c].method.input, call[c].sent), i))

\* how many items the echo service may emit on a response stream
PeerItemLimit(pattern, msgs) ==
    IF pattern = "server_streaming" THEN MaxItems ELSE Len(msgs)

\* a status produced while the call is made, as the pattern's function and
\* dynamic() wrap it: Ok(Err(status)), then Unary(..) or Streaming(Err(..))
WrapStatus(pattern, st) ==
    IF ResponseVariant(pattern) = "Unary" THEN Ok(Unary(RErr(st))) ELSE Ok(StreamingErr(st))

\* a single reply, as unary() and client_streaming() wrap it
WrapReply(pattern, reply) == Ok(Unary(ROk(reply)))

\* client.unary / server_streaming / client_streaming / streaming: the
\* request messages are encoded and sent, and the peer answers
Invoke(c) ==
    /\ call[c].pc = "invoke"
    /\ LET p == call[c].pattern
           msgs == RequestMessages(p, call[c].req.body)
           enc == EncodablePrefix(call[c].pool, call[c].method, msgs)
       IN  IF enc # msgs
           THEN call' = [call EXCEPT ![c].pc = "done", ![c].sent = enc,
                           ![c].trace = Append(@, "invoke"),
                           ![c].result = WrapStatus(p, EncodeFailure)]
           ELSE \/ call' = [call EXCEPT ![c].pc = "done", ![c].sent = msgs,
                              ![c].trace = @ \o <<"invoke", "peer_status">>,
                              ![c].result = WrapStatus(p, PeerFailure)]
                \/ /\ ResponseVariant(p) = "Unary"
                   /\ call' = [call EXCEPT ![c].pc = "done", ![c].sent = msgs,
                                 ![c].trace = Append(@, "invoke"),
                                 ![c].result = WrapReply(p, ReceivedReply(c, msgs))]
                \/ /\ ResponseVariant(p) = "Streaming"
                   /\ call' = [call EXCEPT ![c].pc = "collect", ![c].sent = msgs,
                                 ![c].trace = Append(@, "invoke")]
    /\ UNCHANGED <<conn, bundle, peer, last, refl>>

\* CollectItem putting the new item in front of the collected ones
CollectItemPrepending(c) ==
    /\ call[c].pc = "collect"
    /\ Len(call[c].items) < PeerItemLimit(call[c].pattern, call[c].sent)
    /\ call' = [call EXCEPT ![c].items =
                  <<ROk(ReceivedItem(c, Len(@) + 1))>> \o @]
    /\ UNCHANGED <<conn, bundle, peer, last, refl>>

\* CollectItem giving up the wait for the end of the stream after an item
CollectItemThenReturn(c) ==
    /\ call[c].pc = "collect"
    /\ Len(call[c].items) < PeerItemLimit(call[c].pattern, call[c].sent)
    /\ LET items == Append(call[c].items, ROk(ReceivedItem(c, Len(call[c].items) + 1)))
       IN  call' = [call EXCEPT ![c].pc = "done", ![c].items = items,
                      ![c].result = Ok(StreamingOk(items))]
    /\ UNCHANGED <<conn, bundle, peer, last, refl>>

\* stream.collect(): the next item of the response stream is a message
CollectItem(c) ==
    /\ call[c].pc = "collect"
    /\ Len(call[c].items) < PeerItemLimit(call[c].pattern, call[c].sent)
    /\ call' = [call EXCEPT ![c].items =
                  Append(@, ROk(ReceivedItem(c, Len(@) + 1)))]
    /\ UNCHANGED <<conn, bundle, peer, last, refl>>

\* CollectFailure giving up the items collected before the status
CollectFailureDiscarding(c) ==
    /\ call[c].pc = "collect"
    /\ call' = [call EXCEPT ![c].pc = "done", ![c].items = <<>>,
                  ![c].trace = Append(@, "peer_status"),
                  ![c].result = Ok(StreamingErr(PeerFailure))]
    /\ UNCHANGED <<conn, bundle, peer, last, refl>>

\* CollectFailure on a stream that goes on after a status
CollectFailureContinuing(c) ==
    /\ call[c].pc = "collect"
    /\ Len(call[c].items) < PeerItemLimit(call[c].pattern, call[c].sent)
    /\ call' = [call EXCEPT ![c].items = Append(@, RErr(PeerFailure)),
                            ![c].trace = Append(@, "peer_status")]
    /\ UNCHANGED <<conn, bundle, peer, last, refl>>

\* stream.collect(): the next item is a status, which ends the stream
CollectFailure(c) ==
    /\ call[c].pc = "collect"
    /\ LET items == Append(call[c].items, RErr(PeerFailure))
       IN  call' = [call EXCEPT ![c].pc = "done", ![c].items = items,
                      ![c].trace = Append(@, "peer_status"),
                      ![c].result = Ok(StreamingOk(items))]
    /\ UNCHANGED <<conn, bundle, peer, last, refl>>

\* stream.collect(): the response stream ends
CollectEnd(c) ==
    /\ call[c].pc = "collect"
    /\ Finish(c, Ok(StreamingOk(call[c].items)))
    /\ UNCHANGED <<conn, bundle, peer, last, refl>>

----------------------------------------------------------------------------
(* GrpcClient::unary of the first client (src/src/client.rs) *)

StartUnary(c) ==
    /\ conn[c] = "BundleSchema"
    /\ Free(c)
    /\ \E r \in Requests :
          call' = [call EXCEPT ![c] =
                     [IdleCall EXCEPT !.pc = "unary_lookup", !.entry = "unary", !.req = r,
                        !.pool = DescriptorPoolDecode(bundle[c]).pool]]
    /\ last' = [last EXCEPT ![c] = NoOp]
    /\ UNCHANGED <<conn, bundle, peer, refl>>

\* the names unary() looks up
UnaryLookupName(name) == Trim(name)

UnaryLookupMethod(pool, service, method) ==
    LET service_name == UnaryLookupName(service)
        method_name == UnaryLookupName(method)
        l == LookupMethod(pool, service_name, method_name)
    IN  IF l.ok \/ l.err.kind = "ServiceNotFound" THEN l
        ELSE [l EXCEPT !.err = Error2("MethodNotFound", method_name, service_name)]

UnaryLookup(c) ==
    /\ call[c].pc = "unary_lookup"
    /\ LET l == UnaryLookupMethod(call[c].pool, call[c].req.service, call[c].req.method)
       IN  IF l.ok
           THEN call' = [call EXCEPT ![c].pc = "unary_build", ![c].method = l.method,
                           ![c].pattern = "unary"]
           ELSE Finish(c, Err(l.err))
    /\ UNCHANGED <<conn, bundle, peer, last, refl>>

UnaryBuild(c) ==
    /\ call[c].pc = "unary_build"
    /\ LET b == BuildRequest(call[c].req.headers)
       IN  IF b.ok
           THEN call' = [call EXCEPT ![c].pc = "unary_ready", ![c].metadata = b.metadata,
                           ![c].path = HttpPath(call[c].method)]
           ELSE Finish(c, Err(b.err))
    /\ UNCHANGED <<conn, bundle, peer, last, refl>>

UnaryReady(c) ==
    /\ call[c].pc = "unary_ready"
    /\ \/ call' = [call EXCEPT ![c].pc = "unary_invoke", ![c].trace = Append(@, "ready")]
       \/ FinishTraced(c, "ready_failed", Err(Error("ClientNotReady", <<>>)))
    /\ UNCHANGED <<conn, bundle, peer, last, refl>>

\* client.unary(request, path, codec).await? : a status becomes
\* ClientError::GrpcStatus
UnaryOutcome(res) ==
    IF res.ok THEN Ok(Unary(res)) ELSE Err(Error("GrpcStatus", <<res.status.code>>))

UnaryInvoke(c) ==
    /\ call[c].pc = "unary_invoke"
    /\ LET msgs == <<call[c].req.body>>
           enc == EncodablePrefix(call[c].pool, call[c].method, msgs)
       IN  IF enc # msgs
           THEN call' = [call EXCEPT ![c].pc = "done", ![c].sent = enc,
                           ![c].trace = Append(@, "invoke"),
                           ![c].result = UnaryOutcome(RErr(EncodeFailure))]
           ELSE \/ call' = [call EXCEPT ![c].pc = "done", ![c].sent = msgs,
                              ![c].trace = Append(@, "invoke"),
                              ![c].result = UnaryOutcome(ROk(ReceivedReply(c, msgs)))]
                \/ call' = [call EXCEPT ![c].pc = "done", ![c].sent = msgs,
                              ![c].trace = @ \o <<"invoke", "peer_status">>,
                              ![c].result = UnaryOutcome(RErr(PeerFailure))]
    /\ UNCHANGED <<conn, bundle, peer, last, refl>>

----------------------------------------------------------------------------
(* The caller takes the outcome; the client keeps nothing of the call *)

\* what the caller sees of an outcome: a local error, a status of the peer
\* (as the outcome or as an element of it), or success
OutcomeClass(result) ==
    IF result.tag = "Err" THEN "local_error"
    ELSE IF ~result.resp.res.ok
              \/ \E i \in 1..Len(result.resp.items) : ~result.resp.items[i].ok
    THEN "remote_status"
    ELSE "success"

Return(c) ==
    /\ Returned(c)
    /\ call' = [call EXCEPT ![c] = IdleCall]
    /\ last' = [last EXCEPT ![c] =
           [NoOp EXCEPT !.op = "dynamic", !.kind = OutcomeClass(call[c].result)]]
    /\ UNCHANGED <<conn, bundle, peer, refl>>

----------------------------------------------------------------------------
(* Specification *)

Next ==
    \E c \in Clients :
        \/ WithFileDescriptor(c)
        \/ ListServices(c)
        \/ GetDescriptorBySymbol(c)
        \/ StartDynamic(c)
        \/ ResolveSchema(c)
        \/ Lookup(c)
        \/ Dispatch(c)
        \/ Ready(c)
        \/ Build(c)
        \/ Invoke(c)
        \/ CollectItem(c)
        \/ CollectFailure(c)
        \/ CollectEnd(c)
        \/ StartUnary(c)
        \/ UnaryLookup(c)
        \/ UnaryBuild(c)
        \/ UnaryReady(c)
        \/ UnaryInvoke(c)
        \/ Return(c)

Spec == Init /\ [][Next]_vars

----------------------------------------------------------------------------
(* RemoteReflectionService::fetch_method_descriptor (reflection/remote.rs) *)

\* the serialized FileDescriptorProto blobs a peer may return, named by the
\* file they decode to, and one that does not decode
FileBlobs == {"echo.proto", "dep.proto"}
CorruptBlob == "corrupt"

BlobLists ==
    SeqsUpTo(FileBlobs, MaxBlobs) \cup { <<CorruptBlob>>, <<"echo.proto", CorruptBlob>> }

\* the full method paths a caller asks for
FetchSymbols == { <<"echo.EchoService", "/", "UnaryEcho">>,
                  <<"echo.EchoService", "/", "GhostMethod">> }

\* what response_stream.message().await gives: a status, the end of the
\* stream, or a message whose message_response is a file descriptor
\* response, an error response, another kind of response, or absent
Responses ==
    { Response(k, <<>>) : k \in {"status", "end", "error_response", "other", "empty"} }
        \cup { Response("file_descriptor", bl) : bl \in BlobLists }

\* the message of ServerReflectionRequest
FileContainingSymbol(symbol) == [kind |-> "FileContainingSymbol", symbol |-> symbol]

\* RequestStream sending the request twice
RequestStreamTwice(symbol) ==
    <<FileContainingSymbol(symbol), FileContainingSymbol(symbol)>>

\* tokio_stream::iter(vec![request])
RequestStream(symbol) == <<FileContainingSymbol(symbol)>>

\* FileDescriptorProto::decode
DecodeBlob(blob) == [ok |-> blob # CorruptBlob, file |-> blob]

\* Vec::dedup: of each run of equal consecutive elements the first is kept
RECURSIVE Dedup(_)
Dedup(files) ==
    IF Len(files) <= 1 THEN files
    ELSE IF files[1] = files[2] THEN Dedup(Tail(files))
    ELSE <<files[1]>> \o Dedup(Tail(files))

\* build_file_descriptor_set: decode every blob, push it, then dedup
BuildFileDescriptorSet(blobs) ==
    IF \E i \in 1..Len(blobs) : ~DecodeBlob(blobs[i]).ok
    THEN [ok |-> FALSE, files |-> <<>>]
    ELSE [ok |-> TRUE, files |-> Dedup([i \in 1..Len(blobs) |-> DecodeBlob(blobs[i]).file])]

\* FileDescriptorProto.dependency: the files a file imports; the file that
\* defines the service takes its message types from the other
Imports(file) == IF file = "echo.proto" THEN {"dep.proto"} ELSE {}

\* a file of the set imports a file the set does not hold, so a type
\* reference of the set does not resolve
Dangling(files) ==
    \E i \in 1..Len(files) :
        \E d \in Imports(files[i]) : \A j \in 1..Len(files) : files[j] # d

\* LocalReflectionService: the method is found when the set holds the file
\* that defines it
LocalFetch(files, symbol) ==
    IF (\E i \in 1..Len(files) : files[i] = "echo.proto")
          /\ symbol = <<"echo.EchoService", "/", "UnaryEcho">>
    THEN RResult("Ok", "")
    ELSE RResult("Err", "LocalLookup")

\* ResolveResponse taking every message for a file descriptor response
ResolveResponseLax(resp, symbol) ==
    CASE resp.kind = "status" -> [fd_set |-> <<>>, result |-> RResult("Err", "Status")]
      [] resp.kind = "end" -> [fd_set |-> <<>>, result |-> RResult("Err", "StreamClosed")]
      [] OTHER ->
            LET b == BuildFileDescriptorSet(resp.blobs)
            IN  IF b.ok
                THEN [fd_set |-> b.files, result |-> RResult("Ok", "")]
                ELSE [fd_set |-> <<>>, result |-> RResult("Err", "Decode")]

\* the first response of the stream decides the outcome
ResolveResponse(resp, symbol) ==
    CASE resp.kind = "status" -> [fd_set |-> <<>>, result |-> RResult("Err", "Status")]
      [] resp.kind = "end" -> [fd_set |-> <<>>, result |-> RResult("Err", "StreamClosed")]
      [] resp.kind = "error_response" ->
            [fd_set |-> <<>>, result |-> RResult("Err", "ReflectionError")]
      [] resp.kind = "other" ->
            [fd_set |-> <<>>, result |-> RResult("Err", "UnexpectedResponse")]
      [] resp.kind = "empty" -> [fd_set |-> <<>>, result |-> RResult("Err", "NoMessage")]
      [] resp.kind = "file_descriptor" ->
            LET b == BuildFileDescriptorSet(resp.blobs)
            IN  IF b.ok
                THEN IF Dangling(b.files)
                     THEN [fd_set |-> b.files, result |-> RResult("Err", "DescriptorError")]
                     ELSE [fd_set |-> b.files, result |-> LocalFetch(b.files, symbol)]
                ELSE [fd_set |-> <<>>, result |-> RResult("Err", "Decode")]

\* a discovery stream: who opened it, the requests put on it, how many
\* response messages were read from it, and the state of its round
Stream(owner, requests, state) ==
    [owner |-> owner, requests |-> requests, read |-> 0, state |-> state]

\* a stream that was dropped by the call that opened it
ClosedStream(owner) == [owner |-> owner, requests |-> <<>>, read |-> 0, state |-> "Closed"]

\* the peer the resolvers are connected to
ResolverPeer == peer[CHOOSE c \in Clients : TRUE]

InitResolve ==
    /\ conn = [c \in Clients |-> "DiscoverySchema"]
    /\ bundle = [c \in Clients |-> "none"]
    /\ peer \in [Clients -> PeerKinds]
    /\ call = [c \in Clients |-> IdleCall]
    /\ last = [c \in Clients |-> NoOp]
    /\ refl = NoRounds

\* fetch_method_descriptor is called and builds its request
StartFetch(r) ==
    /\ refl.round[r].pc = "idle"
    /\ Len(refl.streams) < MaxRounds
    /\ \E symbol \in FetchSymbols :
          refl' = [refl EXCEPT !.round[r] =
                     [IdleRound EXCEPT !.pc = "call", !.symbol = symbol]]
    /\ UNCHANGED <<conn, bundle, peer, call, last>>

\* OpenStream putting the request on the first stream instead of a new one
OpenStreamShared(r) ==
    /\ refl.round[r].pc = "call"
    /\ ResolverPeer = "reflecting"
    /\ IF refl.streams = <<>>
       THEN refl' = [refl EXCEPT
                 !.streams = <<Stream(r, RequestStream(refl.round[r].symbol),
                                      "AwaitingResponse")>>,
                 !.round[r].pc = "read", !.round[r].stream = 1]
       ELSE refl' = [refl EXCEPT
                 !.streams[1].requests = @ \o RequestStream(refl.round[r].symbol),
                 !.streams[1].state = "AwaitingResponse",
                 !.round[r].pc = "read", !.round[r].stream = 1]
    /\ UNCHANGED <<conn, bundle, peer, call, last>>

\* client.server_reflection_info(request_stream).await?: a new stream is
\* opened with the request on it; a peer without the service refuses it
OpenStream(r) ==
    /\ refl.round[r].pc = "call"
    /\ LET id == Len(refl.streams) + 1
           requests == RequestStream(refl.round[r].symbol)
       IN  IF ResolverPeer = "reflecting"
           THEN refl' = [refl EXCEPT
                   !.streams = Append(@, Stream(r, requests, "AwaitingResponse")),
                   !.round[r].pc = "read", !.round[r].stream = id]
           ELSE refl' = [refl EXCEPT
                   !.streams = Append(@, Stream(r, requests, "Done")),
                   !.round[r].pc = "done", !.round[r].stream = id,
                   !.round[r].result = RResult("Err", "Status")]
    /\ UNCHANGED <<conn, bundle, peer, call, last>>

\* response_stream.message().await? and the match on its message_response
ReadResponse(r) ==
    /\ refl.round[r].pc = "read"
    /\ \E resp \in Responses :
          LET out == ResolveResponse(resp, refl.round[r].symbol)
              id == refl.round[r].stream
          IN  refl' = [refl EXCEPT
                  !.streams[id].read = IF resp.kind \in {"status", "end"} THEN @ ELSE @ + 1,
                  !.streams[id].state = "Done",
                  !.round[r].pc = "done", !.round[r].response = resp,
                  !.round[r].fd_set = out.fd_set, !.round[r].result = out.result]
    /\ UNCHANGED <<conn, bundle, peer, call, last>>

\* the caller takes the result; the response stream is dropped with the call
ReturnFetch(r) ==
    /\ refl.round[r].pc = "done"
    /\ refl' = [refl EXCEPT !.round[r] = IdleRound,
                            !.streams[refl.round[r].stream] = ClosedStream(r)]
    /\ UNCHANGED <<conn, bundle, peer, call, last>>

NextResolve ==
    \E r \in Resolvers :
        \/ StartFetch(r)
        \/ OpenStream(r)
        \/ ReadResponse(r)
        \/ ReturnFetch(r)

SpecResolve == InitResolve /\ [][NextResolve]_vars

----------------------------------------------------------------------------
(* Bundles: a client is constructed, given a bundle, or called with one *)

InitBundle ==
    /\ conn = [c \in Clients |-> "NoClient"]
    /\ bundle = [c \in Clients |-> "none"]
    /\ peer = [c \in Clients |-> "none"]
    /\ call = [c \in Clients |-> IdleCall]
    /\ last = [c \in Clients |-> NoOp]
    /\ refl = NoRounds

\* GrancClient::connect: a client of a peer, resolving by discovery
Connect(c) ==
    /\ conn[c] = "NoClient"
    /\ conn' = [conn EXCEPT ![c] = "DiscoverySchema"]
    /\ \E k \in PeerKinds : peer' = [peer EXCEPT ![c] = k]
    /\ last' = [last EXCEPT ![c] = [NoOp EXCEPT !.op = "connect"]]
    /\ UNCHANGED <<bundle, call, refl>>

\* GrancClient::offline: a client exists only when the bundle decodes
Offline(c) ==
    /\ conn[c] = "NoClient"
    /\ \E bytes \in Bundles :
          LET d == DescriptorPoolDecode(bytes)
          IN  IF d.ok
              THEN /\ conn' = [conn EXCEPT ![c] = "Disconnected"]
                   /\ bundle' = [bundle EXCEPT ![c] = bytes]
                   /\ last' = [last EXCEPT ![c] =
                          [NoOp EXCEPT !.op = "offline", !.arg = bytes]]
              ELSE /\ UNCHANGED <<conn, bundle>>
                   /\ last' = [last EXCEPT ![c] =
                          [NoOp EXCEPT !.op = "offline", !.arg = bytes, !.ok = FALSE,
                                       !.err = Error("DescriptorError", <<>>)]]
    /\ UNCHANGED <<peer, call, refl>>

\* dynamic() called with a request whose file_descriptor_set is Some(bytes)
StartDynamicBundled(c) ==
    /\ CanDispatch(conn[c])
    /\ Free(c)
    /\ \E r \in BundledRequests :
          call' = [call EXCEPT ![c] =
                     [IdleCall EXCEPT !.pc = "resolve", !.entry = "dynamic", !.req = r]]
    /\ last' = [last EXCEPT ![c] = NoOp]
    /\ UNCHANGED <<conn, bundle, peer, refl>>

NextBundle ==
    \E c \in Clients :
        \/ Connect(c)
        \/ Offline(c)
        \/ WithFileDescriptor(c)
        \/ StartDynamicBundled(c)
        \/ ResolveSchema(c)
        \/ Lookup(c)
        \/ Dispatch(c)
        \/ Ready(c)
        \/ Build(c)
        \/ Invoke(c)
        \/ CollectItem(c)
        \/ CollectFailure(c)
        \/ CollectEnd(c)
        \/ Return(c)

SpecBundle == InitBundle /\ [][NextBundle]_vars

\* the calls of SpecBundle on a transport that eventually becomes ready or
\* fails and a peer that eventually completes each response: every await of
\* dynamic() is eventually resumed
SpecLive ==
    /\ SpecBundle
    /\ \A c \in Clients :
          /\ WF_vars(ResolveSchema(c) \/ Lookup(c) \/ Dispatch(c) \/ Build(c))
          /\ WF_vars(Ready(c))
          /\ WF_vars(Invoke(c))
          /\ WF_vars(CollectEnd(c) \/ CollectFailure(c))

----------------------------------------------------------------------------
(* Client instances: calls one after another, and side by side *)

\* the client instances of a program that holds more than one
Instances == {"c1", "c2"}

\* the requests of a sequence of calls: some succeed, some fail locally, and
\* the peer may answer any of the others with a status
SequenceRequests ==
    [file_descriptor_set : {"none"},
     service : { <<"echo.EchoService">>, <<"echo.GhostService">> },
     method : { <<"UnaryEcho">>, <<"ServerStreamingEcho">>, <<"GhostMethod">> },
     body : { JObject("message", "A") }, headers : { <<>> }]

\* GrancClient::connect, once per instance, each to a peer of its own
InitInstances ==
    /\ conn = [c \in Instances |-> "DiscoverySchema"]
    /\ bundle = [c \in Instances |-> "none"]
    /\ peer \in [Instances -> PeerKinds]
    /\ call = [c \in Instances |-> IdleCall]
    /\ last = [c \in Instances |-> NoOp]
    /\ refl = NoRounds

\* dynamic() called again on a client whose earlier call has returned
StartDynamicNext(c) ==
    /\ CanDispatch(conn[c])
    /\ Free(c)
    /\ \E r \in SequenceRequests :
          call' = [call EXCEPT ![c] =
                     [IdleCall EXCEPT !.pc = "resolve", !.entry = "dynamic", !.req = r]]
    /\ UNCHANGED <<conn, bundle, peer, last, refl>>

NextInstances ==
    \E c \in Instances :
        \/ WithFileDescriptor(c)
        \/ StartDynamicNext(c)
        \/ ResolveSchema(c)
        \/ Lookup(c)
        \/ Dispatch(c)
        \/ Ready(c)
        \/ Build(c)
        \/ Invoke(c)
        \/ CollectItem(c)
        \/ CollectFailure(c)
        \/ CollectEnd(c)
        \/ Return(c)

SpecInstances == InitInstances /\ [][NextInstances]_vars

----------------------------------------------------------------------------
(* Properties *)

IsDynamic(c) == call[c].entry = "dynamic"
Resolved(c) == call[c].method # NoMethod

LocalErrorKinds ==
    {"DescriptorError", "ReflectionResolve", "ServiceNotFound", "MethodNotFound",
     "InvalidJson", "ClientNotReady", "InvalidMetadataKey", "InvalidMetadataValue"}

MetadataErrorKinds == {"InvalidMetadataKey", "InvalidMetadataValue"}

PairLegal(p) == MetadataKeyFromStr(p[1]) /\ MetadataValueFromStr(p[2])
IllegalPairs(hs) == {i \in 1..Len(hs) : ~PairLegal(hs[i])}

ServiceNamesOf(pool) == {s.full_name : s \in pool.services}
MethodNamesOf(pool, service) ==
    {s.methods[i].name : s \in GetServiceByName(pool, service), i \in 1..4}

PatternOfFlags(cs, ss) ==
    CASE ~cs /\ ~ss -> "unary"
      [] ~cs /\ ss  -> "server_streaming"
      [] cs /\ ~ss  -> "client_streaming"
      [] cs /\ ss   -> "bidirectional_streaming"

\* C1: a dynamic call on a resolved method runs the one interaction pattern
\* its pair (client_streaming, server_streaming) selects, and an outcome is
\* Unary exactly when server_streaming is false and Streaming exactly when
\* it is true.
C1_DispatchByCardinality ==
    \A c \in Clients :
        (IsDynamic(c) /\ Resolved(c)) =>
            LET m == call[c].method
                r == call[c].result
            IN  /\ call[c].pc # "dispatch" =>
                     call[c].pattern = PatternOfFlags(m.client_streaming, m.server_streaming)
                /\ call[c].pc = "collect" => m.server_streaming
                /\ (InTrace(c, "invoke") /\ ~m.client_streaming) => Len(call[c].sent) <= 1
                /\ (Returned(c) /\ r.tag = "Ok") =>
                     /\ (r.resp.variant = "Unary") <=> ~m.server_streaming
                     /\ (r.resp.variant = "Streaming") <=> m.server_streaming

C1_Witness ==
    \E c \in Clients :
        /\ IsDynamic(c) /\ Returned(c)
        /\ call[c].method.client_streaming /\ ~call[c].method.server_streaming
        /\ call[c].result.tag = "Ok"
        /\ call[c].result.resp.variant = "Unary"
        /\ Len(call[c].sent) = 2

\* C2: a status returned by the peer is never a local error: the call
\* returns Ok with a Unary outcome wrapping the status (unary and
\* client-streaming methods) or with a Streaming outcome wrapping it or
\* listing it (server-streaming and bidirectional methods), and an Err is
\* only ever one of the local errors.
C2_RemoteStatusIsData ==
    \A c \in Clients :
        Returned(c) =>
            LET m == call[c].method
                r == call[c].result
            IN  /\ InTrace(c, "peer_status") =>
                     /\ r.tag = "Ok"
                     /\ ~m.server_streaming =>
                          (r.resp.variant = "Unary" /\ ~r.resp.res.ok)
                     /\ m.server_streaming =>
                          /\ r.resp.variant = "Streaming"
                          /\ \/ ~r.resp.res.ok
                             \/ \E i \in 1..Len(r.resp.items) : ~r.resp.items[i].ok
                /\ r.tag = "Err" => r.err.kind \in LocalErrorKinds

\* C3: a Disconnected client never dispatches a call: it holds no call, no
\* request was sent and no outcome produced, and the only operations that
\* have acted on it are list_services and get_descriptor_by_symbol.
C3_DisconnectedNeverDispatches ==
    \A c \in Clients :
        conn[c] = "Disconnected" =>
            /\ call[c] = IdleCall
            /\ last[c].op \in {"none", "list_services", "get_descriptor_by_symbol"}

C3_Witness ==
    \E c \in Clients :
        /\ conn[c] = "Disconnected"
        /\ last[c].op = "list_services"
        /\ last[c].names = { <<"echo.EchoService">> }

\* C4: a client is always in one of the three connection states, and the
\* only change of state is DiscoverySchema -> BundleSchema.
C4_ConnectionStateTransitions ==
    /\ [](\A c \in Clients : conn[c] \in ConnStates)
    /\ [][\A c \in Clients :
             conn'[c] # conn[c] =>
                (conn[c] = "DiscoverySchema" /\ conn'[c] = "BundleSchema")]_vars

C4_Witness ==
    \E c \in Clients :
        /\ conn[c] = "BundleSchema"
        /\ Returned(c)
        /\ call[c].result.tag = "Ok"

\* C5 as stated: for a client-streaming or bidirectional method a payload
\* that is not an array fails with the request-shape error before any
\* network I/O, in every state that dispatches calls.
C5_ShapeErrorBeforeAnyIO ==
    \A c \in Clients :
        (IsDynamic(c) /\ Resolved(c) /\ call[c].method.client_streaming
            /\ call[c].req.body.t # "array" /\ Returned(c)) =>
                /\ call[c].result = Err(Error("InvalidJson", <<>>))
                /\ call[c].trace = <<>>

\* C5 as amended: such a call fails with the request-shape error before the
\* readiness wait and before any request of the call is sent; with a bundle
\* no network I/O precedes the error, in the discovery state the discovery
\* lookup that resolved the method does.
C5_ShapeErrorBeforeCallIO ==
    \A c \in Clients :
        (IsDynamic(c) /\ Resolved(c) /\ call[c].method.client_streaming
            /\ call[c].req.body.t # "array") =>
                /\ call[c].pc \in {"dispatch", "done"}
                /\ call[c].sent = <<>>
                /\ ~InTrace(c, "ready") /\ ~InTrace(c, "ready_failed")
                /\ ~InTrace(c, "invoke")
                /\ Returned(c) =>
                     /\ call[c].result = Err(Error("InvalidJson", <<>>))
                     /\ call[c].trace =
                          IF conn[c] = "BundleSchema" THEN <<>> ELSE <<"discovery">>

C5_Witness ==
    \E c \in Clients :
        /\ IsDynamic(c) /\ Returned(c)
        /\ conn[c] = "DiscoverySchema"
        /\ call[c].method.client_streaming /\ call[c].method.server_streaming
        /\ call[c].req.body.t = "object"
        /\ call[c].result.err.kind = "InvalidJson"

\* C6: for a unary or server-streaming method a payload that is not a
\* single object is rejected with the request-shape error before anything
\* crosses the wire.
C6_NonObjectRejectedByShape ==
    \A c \in Clients :
        (IsDynamic(c) /\ Resolved(c) /\ ~call[c].method.client_streaming
            /\ call[c].req.body.t # "object") =>
                /\ call[c].pc \in {"dispatch", "done"}
                /\ ~InTrace(c, "invoke")
                /\ Returned(c) => call[c].result = Err(Error("InvalidJson", <<>>))

\* C7 as stated: a call whose header list holds an illegal pair fails with
\* a metadata error naming the offending key before any bytes are sent to
\* the peer; a call whose pairs are all legal gets no metadata error.
C7_IllegalHeaderFailsCall ==
    \A c \in Clients :
        (IsDynamic(c) /\ Returned(c)) =>
            LET hs == call[c].req.headers
                r == call[c].result
            IN  /\ IllegalPairs(hs) # {} =>
                     /\ r.tag = "Err"
                     /\ r.err.kind \in MetadataErrorKinds
                     /\ \E i \in IllegalPairs(hs) : r.err.arg = hs[i][1]
                     /\ call[c].sent = <<>>
                     /\ ~InTrace(c, "invoke") /\ ~InTrace(c, "discovery")
                /\ IllegalPairs(hs) = {} => r.err.kind \notin MetadataErrorKinds

\* C7 as amended: a call that reaches request construction (method resolved,
\* payload shape accepted, transport ready) with an illegal pair fails with
\* a metadata error naming an offending key, before the RPC is invoked and
\* before any request message is sent; no call is ever invoked with an
\* illegal pair, and a call whose pairs are all legal gets no metadata error.
C7_IllegalHeaderFailsRequestConstruction ==
    \A c \in Clients :
        IsDynamic(c) =>
            LET hs == call[c].req.headers
                r == call[c].result
            IN  /\ (call[c].pc \in {"invoke", "collect"} \/ InTrace(c, "invoke")) =>
                     IllegalPairs(hs) = {}
                /\ (Returned(c) /\ InTrace(c, "ready") /\ IllegalPairs(hs) # {}) =>
                     /\ r.tag = "Err"
                     /\ r.err.kind \in MetadataErrorKinds
                     /\ \E i \in IllegalPairs(hs) : r.err.arg = hs[i][1]
                     /\ call[c].sent = <<>>
                     /\ ~InTrace(c, "invoke")
                /\ IllegalPairs(hs) = {} => r.err.kind \notin MetadataErrorKinds

C7_Witness ==
    \E c \in Clients :
        /\ IsDynamic(c) /\ Returned(c)
        /\ InTrace(c, "ready")
        /\ call[c].result.err = Error("InvalidMetadataValue", <<"x-id">>)
        /\ Len(call[c].req.headers) = 2

\* C8: a request is sent only after the readiness wait has succeeded; when
\* the wait fails the call returns ClientNotReady, nothing is sent and no
\* Unary or Streaming outcome is produced.
C8_SendOnlyAfterReady ==
    \A c \in Clients :
        LET tr == call[c].trace
        IN  /\ (call[c].sent # <<>> \/ InTrace(c, "invoke")
                  \/ call[c].pc \in {"invoke", "collect", "unary_invoke"}) =>
                    (InTrace(c, "ready") /\ ~InTrace(c, "ready_failed"))
            /\ \A i \in 1..Len(tr) :
                 tr[i] = "invoke" => \E j \in 1..(i - 1) : tr[j] = "ready"
            /\ InTrace(c, "ready_failed") =>
                 /\ Returned(c)
                 /\ call[c].result = Err(Error("ClientNotReady", <<>>))
                 /\ call[c].sent = <<>>
                 /\ ~InTrace(c, "invoke")

C8_Witness ==
    \E c \in Clients :
        /\ IsDynamic(c) /\ Returned(c)
        /\ call[c].pattern = "bidirectional_streaming"
        /\ InTrace(c, "ready")
        /\ Len(call[c].sent) = 2

\* C9: once the registry of a call is resolved, a requested service that is
\* not in it gives ServiceNotFound with the requested service name, an
\* existing service without the requested method gives MethodNotFound with
\* the requested method name, and neither error stands for the other.
C9_NotFoundErrorsDistinct ==
    \A c \in Clients :
        (IsDynamic(c) /\ call[c].pc \notin {"idle", "resolve", "lookup"}
            /\ call[c].result.err.kind \notin {"ReflectionResolve", "DescriptorError"}) =>
            LET req == call[c].req
                r == call[c].result
                known == req.service \in ServiceNamesOf(call[c].pool)
                has == req.method \in MethodNamesOf(call[c].pool, req.service)
            IN  /\ ~known => r = Err(Error("ServiceNotFound", req.service))
                /\ (known /\ ~has) => r = Err(Error("MethodNotFound", req.method))
                /\ r.err.kind = "ServiceNotFound" => ~known
                /\ r.err.kind = "MethodNotFound" => (known /\ ~has)

C9_Witness ==
    \E c \in Clients :
        /\ IsDynamic(c) /\ Returned(c)
        /\ call[c].req.service = <<"echo.EchoService">>
        /\ call[c].result = Err(Error("MethodNotFound", <<"GhostMethod">>))

\* C10: a lookup succeeds only when the requested service name is character
\* for character the fully qualified name of the service and the requested
\* method name character for character the short name of the method.
C10_ExactNameMatch ==
    \A c \in Clients :
        Resolved(c) =>
            /\ call[c].req.service = call[c].method.parent
            /\ call[c].req.method = call[c].method.name

InitFailed == Error("ReflectionResolve", <<"ServerStreamInitFailed", "Unimplemented">>)
SymbolNotFound == Error("ReflectionResolve", <<"ServerStreamFailure", "NotFound">>)

\* C11: in the discovery state, once the discovery step of a call has run,
\* a peer without the discovery service gives ServerStreamInitFailed
\* (Unimplemented), a working discovery service that does not know the
\* service gives ServerStreamFailure (NotFound), neither stands for the
\* other, and no such call ends in ServiceNotFound.
C11_DiscoveryErrorsDistinct ==
    \A c \in Clients :
        (IsDynamic(c) /\ conn[c] = "DiscoverySchema" /\ InTrace(c, "discovery")) =>
            LET r == call[c].result
                known == call[c].req.service \in ServiceNamesOf(PeerPool)
            IN  /\ peer[c] = "plain" => (Returned(c) /\ r = Err(InitFailed))
                /\ (peer[c] = "reflecting" /\ ~known) =>
                      (Returned(c) /\ r = Err(SymbolNotFound))
                /\ (peer[c] = "reflecting" /\ known) => r.err.kind # "ReflectionResolve"
                /\ r.err = InitFailed => peer[c] = "plain"
                /\ r.err = SymbolNotFound => (peer[c] = "reflecting" /\ ~known)
                /\ r.err.kind # "ServiceNotFound"

C11_Witness ==
    \E c \in Clients :
        /\ IsDynamic(c) /\ Returned(c)
        /\ conn[c] = "DiscoverySchema" /\ peer[c] = "reflecting"
        /\ call[c].req.service = <<"echo.GhostService">>
        /\ call[c].result = Err(SymbolNotFound)

DoneRounds == {r \in Resolvers : refl.round[r].pc = "done"}
SetOf(seq) == {seq[i] : i \in 1..Len(seq)}
ProtocolViolations == {"StreamClosed", "UnexpectedResponse", "NoMessage"}

MessageKinds == {"file_descriptor", "error_response", "other", "empty"}

\* C13: a round puts exactly one request on its stream, the
\* find-file-containing-symbol request for the symbol asked, and reads at
\* most one response message from it: exactly one when the peer delivers a
\* message, none when the stream fails or ends first.
C13_OneRequestOneResponse ==
    /\ \A i \in 1..Len(refl.streams) :
          refl.streams[i].state # "Closed" =>
              /\ Len(refl.streams[i].requests) = 1
              /\ refl.streams[i].requests[1].kind = "FileContainingSymbol"
              /\ refl.streams[i].read <= 1
    /\ \A r \in Resolvers :
          LET rd == refl.round[r]
          IN  rd.stream # 0 =>
                /\ refl.streams[rd.stream].requests = <<FileContainingSymbol(rd.symbol)>>
                /\ rd.pc = "read" => refl.streams[rd.stream].read = 0
                /\ (rd.pc = "done" /\ rd.response.kind \in MessageKinds) =>
                      refl.streams[rd.stream].read = 1
                /\ (rd.pc = "done" /\ rd.response.kind \notin MessageKinds) =>
                      refl.streams[rd.stream].read = 0

C13_Witness ==
    \E r \in DoneRounds :
        /\ refl.round[r].response.kind = "file_descriptor"
        /\ refl.round[r].result.tag = "Ok"
        /\ refl.streams[refl.round[r].stream].read = 1
        /\ Len(refl.streams[refl.round[r].stream].requests) = 1

StreamIds == 1..Len(refl.streams)
AwaitingOn(i) == {r \in Resolvers : refl.round[r].pc = "read" /\ refl.round[r].stream = i}

\* C14 as stated: the discovery stream of a client persists across its
\* rounds (all rounds of one resolver run on one stream) and no two rounds
\* are awaiting a response on the same stream.
C14_PersistentStreamOneOutstanding ==
    /\ \A i, j \in StreamIds :
          refl.streams[i].owner = refl.streams[j].owner => i = j
    /\ \A i \in StreamIds : Cardinality(AwaitingOn(i)) <= 1

\* C14 as amended: every round opens a discovery stream of its own and
\* goes Idle -> AwaitingResponse -> Done on it; a stream carries one
\* request, is awaited by its owner alone, and once Done is only dropped,
\* never used again, so no two rounds are awaiting a response on the same
\* stream.
C14_OneRoundPerStream ==
    /\ [](\A i \in StreamIds :
             /\ refl.streams[i].state \in {"AwaitingResponse", "Done", "Closed"}
             /\ refl.streams[i].state # "Closed" => Len(refl.streams[i].requests) = 1
             /\ refl.streams[i].state = "AwaitingResponse" =>
                   AwaitingOn(i) = {refl.streams[i].owner}
             /\ refl.streams[i].state # "AwaitingResponse" => AwaitingOn(i) = {})
    /\ [][/\ Len(refl.streams') >= Len(refl.streams)
          /\ \A i \in StreamIds :
                /\ refl.streams'[i].owner = refl.streams[i].owner
                /\ refl.streams'[i].state # refl.streams[i].state =>
                      <<refl.streams[i].state, refl.streams'[i].state>> \in
                          {<<"AwaitingResponse", "Done">>, <<"Done", "Closed">>}
                /\ refl.streams'[i].state # "Closed" =>
                      refl.streams'[i].requests = refl.streams[i].requests
          /\ \A r \in Resolvers :
                LET old == refl.round[r]
                    new == refl.round'[r]
                IN  /\ old.pc # new.pc =>
                         <<old.pc, new.pc>> \in {<<"idle", "call">>, <<"call", "read">>,
                              <<"call", "done">>, <<"read", "done">>, <<"done", "idle">>}
                    /\ (old.pc = "call" /\ new.pc # "call") =>
                         /\ Len(refl.streams') = Len(refl.streams) + 1
                         /\ new.stream = Len(refl.streams')]_vars

C14_Witness ==
    \E i, j \in StreamIds :
        /\ i # j
        /\ refl.streams[i].state = "AwaitingResponse"
        /\ refl.streams[j].state = "AwaitingResponse"
        /\ refl.streams[i].owner # refl.streams[j].owner

\* C15: the bundle built from a discovery response holds each file at most
\* once, whatever the order and the repetitions of the blobs returned.
C15_BundleHasNoDuplicates ==
    \A r \in DoneRounds :
        LET files == refl.round[r].fd_set
        IN  \A i, j \in 1..Len(files) : files[i] = files[j] => i = j

StreamingCalls ==
    {c \in Clients : IsDynamic(c) /\ Resolved(c) /\ call[c].method.server_streaming}

\* the i-th item the peer emits on the response stream of the call
EmittedItem(c, i) == ROk(PeerItem(call[c].pattern, call[c].sent, i))

\* C16: in a server-streaming or bidirectional call whose response stream was
\* opened, the collected list holds the peer's items one element per item in
\* the order of emission, no outcome exists while the stream is open, and
\* when the peer ends the stream after N success items the outcome is
\* Streaming(Ok) of exactly those N success elements.
C16_StreamCollectedInOrder ==
    \A c \in StreamingCalls :
        LET items == call[c].items
            r == call[c].result
        IN  /\ call[c].pc = "collect" => r = NoResult
            /\ \A i \in 1..Len(items) : items[i].ok => items[i] = EmittedItem(c, i)
            /\ (Returned(c) /\ r.tag = "Ok" /\ r.resp.res.ok) =>
                  /\ r.resp = StreamingOk(items)
                  /\ ~InTrace(c, "peer_status") =>
                        \A i \in 1..Len(r.resp.items) : r.resp.items[i] = EmittedItem(c, i)

C16_Witness ==
    \E c \in StreamingCalls :
        /\ Returned(c)
        /\ call[c].pattern = "server_streaming"
        /\ ~InTrace(c, "peer_status")
        /\ Len(call[c].result.resp.items) = MaxItems
        /\ call[c].result.resp.items[MaxItems].value.val = "A - seq " \o ToString(MaxItems - 1)

\* C17: every element of a collected sequence carries its own success or
\* failure; a failure is the last element of its sequence, the success
\* elements received before it are in the outcome unchanged and in order,
\* and the outcome is still Streaming(Ok(list)).
C17_FailureTruncatesStream ==
    /\ [](\A c \in StreamingCalls :
             LET items == call[c].items
                 r == call[c].result
             IN  /\ \A i \in 1..Len(items) : ~items[i].ok => i = Len(items)
                 /\ (Returned(c) /\ InTrace(c, "peer_status")
                        /\ r.tag = "Ok" /\ r.resp.res.ok) =>
                       /\ r = Ok(StreamingOk(items))
                       /\ items # <<>>
                       /\ items[Len(items)] = RErr(PeerFailure)
                       /\ \A i \in 1..(Len(items) - 1) : r.resp.items[i] = EmittedItem(c, i))
    /\ [][\A c \in Clients :
             (call[c].pc = "collect" /\ call'[c].pc \in {"collect", "done"}) =>
                 \A i \in 1..Len(call[c].items) :
                     /\ Len(call'[c].items) >= i
                     /\ call'[c].items[i] = call[c].items[i]]_vars

C17_Witness ==
    \E c \in StreamingCalls :
        /\ Returned(c)
        /\ call[c].result.resp.variant = "Streaming"
        /\ Len(call[c].result.resp.items) = 3
        /\ call[c].result.resp.items[1].ok /\ call[c].result.resp.items[2].ok
        /\ ~call[c].result.resp.items[3].ok

\* C18: a client-streaming or bidirectional call with an array of N elements
\* that all encode sends exactly the N elements as request messages, in
\* array order: the concatenating method answers the concatenation in that
\* order, and the echoing method answers element i with its echo.
C18_OneRequestPerElementInOrder ==
    \A c \in Clients :
        (IsDynamic(c) /\ Resolved(c) /\ call[c].method.client_streaming
            /\ InTrace(c, "invoke")) =>
            LET elems == call[c].req.body.items
                r == call[c].result
            IN  (\A i \in 1..Len(elems) : EncodeOk(call[c].pool, call[c].method, elems[i])) =>
                    /\ call[c].req.body.t = "array"
                    /\ call[c].sent = elems
                    /\ (call[c].pattern = "client_streaming" /\ Returned(c)
                            /\ r.resp.res.ok) =>
                          r.resp.res.value = JObject("message", ConcatVals(elems))
                    /\ call[c].pattern = "bidirectional_streaming" =>
                          \A i \in 1..Len(call[c].items) :
                              call[c].items[i].ok =>
                                  call[c].items[i].value =
                                      JObject("message", "echo: " \o elems[i].val)

C18_Witness ==
    \E c \in Clients :
        /\ IsDynamic(c) /\ Returned(c)
        /\ call[c].pattern = "client_streaming"
        /\ call[c].sent = <<JObject("message", "A"), JObject("message", "B")>>
        /\ call[c].result = Ok(Unary(ROk(JObject("message", "AB"))))

C20_UnknownFieldIsInvalidArgument ==
    \A c \in Clients :
        (IsDynamic(c) /\ Returned(c) /\ call[c].pattern = "unary"
            /\ InTrace(c, "invoke") /\ call[c].req.body.t = "object"
            /\ call[c].req.body.key \notin call[c].pool.fields[call[c].method.input]) =>
            /\ call[c].sent = <<>>
            /\ call[c].result =
                  Ok(Unary(RErr(Status("InvalidArgument",
                                       "JSON structure does not match Protobuf schema"))))

\* a unary call that reached the codec with an object whose key is no field
\* of the method's input message
SchemaMismatchCalls ==
    {c \in Clients :
        /\ IsDynamic(c) /\ Returned(c) /\ call[c].pattern = "unary"
        /\ InTrace(c, "invoke") /\ call[c].req.body.t = "object"
        /\ call[c].req.body.key \notin call[c].pool.fields[call[c].method.input]}

TraceCount(c, step) ==
    Cardinality({i \in 1..Len(call[c].trace) : call[c].trace[i] = step})

\* the call has passed schema resolution
PastResolve(c) == call[c].pc \notin {"idle", "resolve"}

\* C22: in the DiscoverySchema state a dynamic call asks the discovery
\* service for the request's service name, as the first step of the call and
\* before dispatch; in the BundleSchema state the schema of the call is the
\* loaded bundle, no discovery request is sent, and the call does not fail
\* for a peer without the discovery service.
C22_SchemaSourceByState ==
    \A c \in Clients :
        (IsDynamic(c) /\ PastResolve(c)) =>
            /\ conn[c] = "DiscoverySchema" =>
                  /\ call[c].trace[1] = "discovery"
                  /\ TraceCount(c, "discovery") = 1
                  /\ call[c].symbol = call[c].req.service
                  /\ call[c].pattern # "none" => call[c].pool = PeerPool
            /\ conn[c] = "BundleSchema" =>
                  /\ ~InTrace(c, "discovery")
                  /\ call[c].symbol = <<>>
                  /\ call[c].pool = DescriptorPoolDecode(bundle[c]).pool
                  /\ call[c].result.err.kind # "ReflectionResolve"

C22_Witness ==
    \E c \in Clients :
        /\ IsDynamic(c) /\ Returned(c)
        /\ conn[c] = "BundleSchema" /\ peer[c] = "plain"
        /\ ~InTrace(c, "discovery")
        /\ call[c].result = Ok(Unary(ROk(JObject("message", "A"))))

\* the position of a step in the sequence of steps of GrpcClient::dynamic
StepRank(pc) ==
    CASE pc = "idle" -> 0
      [] pc = "resolve" -> 1
      [] pc = "lookup" -> 2
      [] pc = "dispatch" -> 3
      [] pc = "ready" -> 4
      [] pc = "build" -> 5
      [] pc = "invoke" -> 6
      [] pc = "collect" -> 7
      [] OTHER -> 8

\* the steps that have not run when a call ends with the error
StepsNotRun(kind) ==
    CASE kind \in {"DescriptorError", "ReflectionResolve", "ServiceNotFound",
                   "MethodNotFound", "InvalidJson"} -> {"ready", "ready_failed", "invoke"}
      [] kind = "ClientNotReady" -> {"ready", "invoke"}
      [] OTHER -> {"ready_failed", "invoke"}

FailedLocally(c) == IsDynamic(c) /\ call[c].result.tag = "Err"

\* C23: a local error ends the call at the step where it occurs: the call
\* is done, no later step has run and none runs afterwards, nothing was
\* sent, and the only thing that follows is the caller taking the error; a
\* call never goes back to a step, so it runs at most one discovery round,
\* one readiness wait and one RPC invocation.
C23_LocalErrorsEndTheCall ==
    /\ [](\A c \in Clients :
             IsDynamic(c) =>
                /\ TraceCount(c, "discovery") <= 1
                /\ TraceCount(c, "ready") + TraceCount(c, "ready_failed") <= 1
                /\ TraceCount(c, "invoke") <= 1
                /\ FailedLocally(c) =>
                      /\ Returned(c)
                      /\ call[c].result.err.kind \in LocalErrorKinds
                      /\ \A s \in StepsNotRun(call[c].result.err.kind) : ~InTrace(c, s)
                      /\ call[c].sent = <<>> /\ call[c].items = <<>>
                      /\ call[c].result.resp = NoResponse)
    /\ [][\A c \in Clients :
             /\ FailedLocally(c) => call'[c] \in {call[c], IdleCall}
             /\ (IsDynamic(c) /\ call'[c] # call[c] /\ call'[c] # IdleCall) =>
                   \/ StepRank(call'[c].pc) > StepRank(call[c].pc)
                   \/ call[c].pc = "collect" /\ call'[c].pc = "collect"]_vars

C23_Witness ==
    \E c \in Clients :
        /\ FailedLocally(c)
        /\ call[c].result.err.kind = "ClientNotReady"
        /\ call[c].trace = <<"discovery", "ready_failed">>
        /\ call[c].req.body = JArray(<<JObject("message", "A"), JObject("message", "B")>>)

\* the calls whose RPC was invoked, by either entry point
InvokedCalls == {c \in Clients : InTrace(c, "invoke")}

\* the services of the call's registry that define the call's method
ParentServices(c) ==
    {s \in call[c].pool.services :
        \E i \in 1..Len(s.methods) : s.methods[i] = call[c].method}

\* C24: the method path of every invoked call, whatever its interaction
\* pattern, is "/" + the fully qualified name of the service that defines
\* the method + "/" + the short name of the method, and nothing else.
C24_MethodPath ==
    \A c \in InvokedCalls :
        /\ ParentServices(c) # {}
        /\ \A s \in ParentServices(c) :
              call[c].path = <<"/">> \o s.full_name \o <<"/">> \o call[c].method.name
        /\ Len(call[c].path) = 4
        /\ \A i \in 1..Len(call[c].path) : ~IsSpace(call[c].path[i])

C24_Witness ==
    \E c \in InvokedCalls :
        /\ call[c].pattern = "bidirectional_streaming"
        /\ call[c].path = <<"/", "echo.EchoService", "/", "BidirectionalEcho">>
        /\ Returned(c)

\* every method's input and output message is defined in the same registry
FullyResolved(pool) ==
    \A s \in pool.services :
        \A i \in 1..Len(s.methods) :
            /\ s.methods[i].input \in DOMAIN pool.fields
            /\ s.methods[i].output \in DOMAIN pool.fields

\* the calls that run on a bundle
BundleCalls == {c \in Clients : IsDynamic(c) /\ CallBundle(c) # "none"}

\* C25: a bundle that is malformed or has a type reference that never
\* resolves is refused with the descriptor error wherever it is decoded:
\* no offline client is constructed from it, a connected client it is
\* attached to stays as it was, and a call it comes with ends with the
\* error before any method is looked up, dispatched or invoked; a bundle
\* that is accepted gives a fully resolved registry.
C25_BadBundleNeverUsable ==
    \A c \in Clients :
        /\ conn[c] \in {"BundleSchema", "Disconnected"} =>
              /\ bundle[c] = "FILE_DESCRIPTOR_SET"
              /\ FullyResolved(DescriptorPoolDecode(bundle[c]).pool)
        /\ last[c].op \in {"offline", "with_file_descriptor"} =>
              /\ last[c].ok <=> last[c].arg = "FILE_DESCRIPTOR_SET"
              /\ ~last[c].ok =>
                    /\ last[c].err = Error("DescriptorError", <<>>)
                    /\ conn[c] = IF last[c].op = "offline" THEN "NoClient"
                                 ELSE "DiscoverySchema"
                    /\ bundle[c] = "none"
        /\ c \in BundleCalls =>
              IF CallBundle(c) = "FILE_DESCRIPTOR_SET"
              THEN /\ call[c].result.err.kind # "DescriptorError"
                   /\ PastResolve(c) =>
                         (call[c].pool = EchoPool /\ FullyResolved(call[c].pool))
              ELSE /\ call[c].pc \in {"resolve", "done"}
                   /\ call[c].pool = EmptyPool
                   /\ call[c].method = NoMethod /\ call[c].pattern = "none"
                   /\ call[c].trace = <<>> /\ call[c].sent = <<>>
                   /\ Returned(c) => call[c].result = Err(Error("DescriptorError", <<>>))

C25_Witness ==
    \E c \in BundleCalls :
        /\ Returned(c)
        /\ call[c].req.file_descriptor_set = "unresolved"
        /\ call[c].result = Err(Error("DescriptorError", <<>>))
        /\ conn[c] = "DiscoverySchema"

\* the qualified names a registry defines
SymbolsOf(pool) == ServiceNamesOf(pool) \cup {<<m>> : m \in DOMAIN pool.fields}

\* the clients whose last operation was get_descriptor_by_symbol
Described == {c \in Clients : last[c].op = "get_descriptor_by_symbol"}

\* the registry a client holds in the states that have one
HeldRegistry(c) == DescriptorPoolDecode(bundle[c]).pool

\* C26: on a client that holds a registry (offline, or connected with a
\* bundle attached) get_descriptor_by_symbol never fails, and for a symbol
\* the registry does not define it returns no descriptor.
C26_AbsentSymbolIsNone ==
    \A c \in Described :
        conn[c] \in {"BundleSchema", "Disconnected"} =>
            /\ last[c].ok /\ last[c].err = NoError
            /\ last[c].arg \notin SymbolsOf(HeldRegistry(c)) =>
                  (last[c].names = {} /\ last[c].kind = "None")
            /\ last[c].arg \in SymbolsOf(HeldRegistry(c)) => last[c].names # {}

C26_Witness ==
    \E c \in Described :
        /\ conn[c] = "Disconnected"
        /\ last[c].arg = <<"echo.Ghost">>
        /\ last[c].ok /\ last[c].names = {}

\* the clients that asked a working discovery service for a symbol
DescribedByPeer ==
    {c \in Described : conn[c] = "DiscoverySchema" /\ peer[c] = "reflecting"}

\* C27: in the discovery state get_descriptor_by_symbol for a symbol the
\* peer does not know returns the error NotFound carrying the symbol asked
\* for, and NotFound is returned for no other symbol.
C27_UnknownSymbolIsNotFound ==
    \A c \in DescribedByPeer :
        /\ last[c].arg \notin SymbolsOf(PeerPool) =>
              (~last[c].ok /\ last[c].err = Error("NotFound", last[c].arg)
                  /\ last[c].names = {})
        /\ last[c].err.kind = "NotFound" => last[c].arg \notin SymbolsOf(PeerPool)

C27_Witness ==
    \E c \in DescribedByPeer :
        /\ last[c].arg = <<"echo.Ghost">>
        /\ last[c].err = Error("NotFound", <<"echo.Ghost">>)

\* the rounds that are done and were answered with files that decode
AnsweredRounds ==
    {r \in DoneRounds :
        /\ refl.round[r].response.kind = "file_descriptor"
        /\ CorruptBlob \notin SetOf(refl.round[r].response.blobs)}

\* C28: a round yields a registry only when every type reference of its
\* files resolves within them, and a round whose files so far leave a
\* reference dangling has gone on to merge more fragments (it has read more
\* than the one response) before the registry is built from them.
C28_DanglingFragmentsAreRetried ==
    \A r \in AnsweredRounds :
        /\ refl.round[r].result.tag = "Ok" => ~Dangling(refl.round[r].fd_set)
        /\ Dangling(refl.round[r].fd_set) =>
              /\ refl.streams[refl.round[r].stream].read > 1
              /\ refl.round[r].result.err # "DescriptorError"

\* the registry a lookup of the client runs on: the peer's in the discovery
\* state, the loaded bundle's otherwise
LookupRegistry(c) == IF conn[c] = "DiscoverySchema" THEN PeerPool ELSE HeldRegistry(c)

MessageNamesOf(pool) == {<<m>> : m \in DOMAIN pool.fields}

\* C29: get_descriptor_by_symbol for the qualified name of a service gives
\* a service descriptor, and for the qualified name of a message a message
\* descriptor, each carrying the name asked for, on an offline client, on
\* a client with a bundle and on a client that resolves by discovery.
C29_DescriptorOfDefinedKind ==
    \A c \in Described :
        (conn[c] = "DiscoverySchema" => peer[c] = "reflecting") =>
            /\ last[c].arg \in ServiceNamesOf(LookupRegistry(c)) =>
                  /\ last[c].ok
                  /\ last[c].kind = "ServiceDescriptor"
                  /\ last[c].names = {last[c].arg}
            /\ last[c].arg \in MessageNamesOf(LookupRegistry(c)) =>
                  /\ last[c].ok
                  /\ last[c].kind = "MessageDescriptor"
                  /\ last[c].names = {last[c].arg}

C29_Witness ==
    \E c \in Described :
        /\ conn[c] = "DiscoverySchema"
        /\ last[c].arg = <<"echo.EchoRequest">>
        /\ last[c].kind = "MessageDescriptor"
        /\ last[c].names = { <<"echo.EchoRequest">> }

\* the clients whose last operation was list_services
Listed == {c \in Clients : last[c].op = "list_services"}

\* C30: list_services on a client whose schema is a bundle (offline, or
\* connected with a bundle attached) returns exactly the services the
\* bundle defines, whatever the peer serves; in the discovery state, against
\* a peer that serves discovery, it returns the services of the peer and the
\* discovery service itself.
C30_ListServicesBySchemaSource ==
    \A c \in Listed :
        /\ conn[c] \in {"BundleSchema", "Disconnected"} =>
              /\ last[c].ok
              /\ bundle[c] = "FILE_DESCRIPTOR_SET"
              /\ last[c].names = { <<"echo.EchoService">> }
              /\ ReflectionServiceName \notin last[c].names
        /\ (conn[c] = "DiscoverySchema" /\ peer[c] = "reflecting") =>
              /\ last[c].ok
              /\ last[c].names = ServiceNamesOf(PeerPool) \cup {ReflectionServiceName}
              /\ <<"echo.EchoService">> \in last[c].names

C30_Witness ==
    \E c \in Listed :
        /\ conn[c] = "BundleSchema" /\ peer[c] = "reflecting"
        /\ last[c].names = { <<"echo.EchoService">> }

\* the schema a call resolves, from the state of its own client and its
\* own request alone
OwnSchema(c) ==
    IF CallBundle(c) # "none"
    THEN LET d == DescriptorPoolDecode(CallBundle(c))
         IN  [ok |-> d.ok, pool |-> d.pool, err |-> Error("DescriptorError", <<>>)]
    ELSE DiscoveryAnswer(peer[c], call[c].req.service)

\* the method a call resolves in its own schema
OwnLookup(c) == LookupMethod(OwnSchema(c).pool, call[c].req.service, call[c].req.method)

\* the error of the first check the request fails before the readiness wait
OwnCheckError(c) ==
    IF ~OwnSchema(c).ok THEN OwnSchema(c).err
    ELSE IF ~OwnLookup(c).ok THEN OwnLookup(c).err
    ELSE IF ~ShapeAccepted(DispatchPattern(OwnLookup(c).method), call[c].req.body)
    THEN Error("InvalidJson", <<>>)
    ELSE NoError

\* the result of a returned call is one that its own request, its own
\* client and the answers of its own peer and transport allow
OwnOutcome(c) ==
    LET r == call[c].result
        b == BuildRequest(call[c].req.headers)
    IN  IF OwnCheckError(c) # NoError THEN r = Err(OwnCheckError(c))
        ELSE \/ r = Err(Error("ClientNotReady", <<>>))
             \/ IF ~b.ok THEN r = Err(b.err)
                ELSE /\ r.tag = "Ok"
                     /\ r.resp.variant =
                           ResponseVariant(DispatchPattern(OwnLookup(c).method))
                     /\ OutcomeClass(r) = "success" =>
                           IF r.resp.variant = "Unary"
                           THEN r.resp.res.value = call[c].req.body
                           ELSE \A i \in 1..Len(r.resp.items) :
                                   r.resp.items[i] = EmittedItem(c, i)

\* the instances running a call that was made after an earlier call on the
\* same client had returned
LaterCalls == {c \in Instances : IsDynamic(c) /\ last[c].op = "dynamic"}

\* C31: a client serves any sequence of calls: a call changes neither the
\* connection state nor the bundle nor the peer of its client, nothing of a
\* call is left in the client once the caller has taken the outcome, and
\* the result of every call, whatever the outcome of the call before it
\* (success, local error or remote status), is one its own request and the
\* peer allow.
C31_CallsLeaveClientUnchanged ==
    /\ [](\A c \in Instances :
             /\ Free(c) => call[c] = IdleCall
             /\ (IsDynamic(c) /\ Returned(c)) => OwnOutcome(c))
    /\ [][\A c \in Instances :
             ~Free(c) => /\ conn'[c] = conn[c]
                         /\ bundle'[c] = bundle[c]
                         /\ peer'[c] = peer[c]]_vars

C31_Witness ==
    \E c \in LaterCalls :
        /\ last[c].kind = "local_error"
        /\ Returned(c)
        /\ conn[c] = "DiscoverySchema"
        /\ call[c].result = Ok(Unary(ROk(JObject("message", "A"))))

\* everything the model holds of one client instance
Own(c) == <<conn[c], bundle[c], peer[c], call[c], last[c]>>

\* the pairs of distinct instances that are both in the middle of a call
ConcurrentCalls ==
    {p \in Instances \X Instances :
        /\ p[1] # p[2]
        /\ \A i \in 1..2 : IsDynamic(p[i]) /\ ~Free(p[i])}

\* C32: calls on distinct client instances share no mutable state: in every
\* interleaving a step changes the state of one instance only, and each
\* call returns a result its own request, its own client and its own peer
\* allow, whatever the other instance is doing or has returned.
C32_DistinctClientsAreIndependent ==
    /\ [](\A p \in ConcurrentCalls : Returned(p[1]) => OwnOutcome(p[1]))
    /\ [][\A c, d \in Instances :
             (c # d /\ Own(c)' # Own(c)) => Own(d)' = Own(d)]_vars

C32_Witness ==
    \E p \in ConcurrentCalls :
        /\ peer[p[1]] = "plain" /\ peer[p[2]] = "reflecting"
        /\ call[p[1]].req = call[p[2]].req
        /\ Returned(p[1]) /\ call[p[1]].result.tag = "Err"
        /\ call[p[2]].pc = "collect" /\ Len(call[p[2]].items) = 1

\* C33: the call has no timeout of its own: with a transport that
\* eventually becomes ready or fails and a peer that eventually completes
\* its response every call eventually returns; while a response stream is
\* open the call has no outcome, and the only steps that end the collection
\* are the peer's end of the stream and the peer's failure status, so a
\* stream the peer never ends is a call that never returns.
C33_ReturnsWhenPeerCompletes ==
    /\ \A c \in Clients : (IsDynamic(c) /\ ~Returned(c)) ~> Returned(c)
    /\ [](\A c \in Clients :
             (IsDynamic(c) /\ ~Returned(c)) => call[c].result = NoResult)
    /\ [][\A c \in Clients :
             (call[c].pc = "collect" /\ call'[c].pc # "collect") =>
                 /\ call'[c].pc = "done"
                 /\ \/ call'[c].items = call[c].items
                    \/ call'[c].items = Append(call[c].items, RErr(PeerFailure))]_vars

C33_Witness ==
    \E c \in Clients :
        /\ IsDynamic(c) /\ Returned(c)
        /\ call[c].pattern = "server_streaming"
        /\ ~InTrace(c, "peer_status")
        /\ call[c].result.tag = "Ok"
        /\ Len(call[c].result.resp.items) = MaxItems

\* the dynamic calls that have returned
ReturnedCalls == {c \in Clients : IsDynamic(c) /\ Returned(c)}

\* C34: the checks of a dynamic call run in the order schema resolution,
\* service lookup, method lookup, request-shape check, and the first that
\* fails is the error of the call whatever a later check would say: with
\* the schema resolved, an unknown service gives ServiceNotFound also when
\* the method is unknown, and an unknown method of a known service gives
\* MethodNotFound also when the payload is not an array or a header is
\* invalid.
C34_FirstFailingCheckDecides ==
    \A c \in ReturnedCalls :
        LET req == call[c].req
            r == call[c].result
            schema == OwnSchema(c)
            known == req.service \in ServiceNamesOf(schema.pool)
            has == req.method \in MethodNamesOf(schema.pool, req.service)
        IN  /\ ~schema.ok => r = Err(schema.err)
            /\ (schema.ok /\ ~known) => r = Err(Error("ServiceNotFound", req.service))
            /\ (schema.ok /\ known /\ ~has) => r = Err(Error("MethodNotFound", req.method))
            /\ (schema.ok /\ known /\ has
                    /\ call[c].method.client_streaming /\ req.body.t # "array") =>
                  r = Err(Error("InvalidJson", <<>>))
            /\ r.err.kind \in {"ClientNotReady", "InvalidMetadataKey", "InvalidMetadataValue"} =>
                  (schema.ok /\ known /\ has)

C34_Witness ==
    \E c \in ReturnedCalls :
        /\ conn[c] = "BundleSchema"
        /\ call[c].req.service = <<"echo.EchoService">>
        /\ call[c].req.method = <<"GhostMethod">>
        /\ call[c].req.body = JString("A")
        /\ IllegalPairs(call[c].req.headers) # {}
        /\ call[c].result = Err(Error("MethodNotFound", <<"GhostMethod">>))

\* the calls that have returned, made through either entry point
AllReturnedCalls == {c \in Clients : Returned(c)}

\* C35: within a call the request-shape check precedes the readiness wait
\* and the readiness wait precedes header validation: a non-array payload
\* to a client-streaming method gives the shape error without the transport
\* having been waited for, a failed readiness wait gives ClientNotReady
\* also when a header is invalid, and a metadata error is only ever
\* reported after the readiness wait has succeeded.
C35_ShapeThenReadyThenHeaders ==
    \A c \in AllReturnedCalls :
        LET r == call[c].result
        IN  /\ (Resolved(c) /\ call[c].pattern \in {"client_streaming", "bidirectional_streaming"}
                    /\ call[c].req.body.t # "array") =>
                  /\ r = Err(Error("InvalidJson", <<>>))
                  /\ ~InTrace(c, "ready") /\ ~InTrace(c, "ready_failed")
            /\ InTrace(c, "ready_failed") => r = Err(Error("ClientNotReady", <<>>))
            /\ r.err.kind \in MetadataErrorKinds => InTrace(c, "ready")

\* the position of the first pair of a header list that is not legal
FirstIllegal(hs) == CHOOSE i \in IllegalPairs(hs) : \A j \in IllegalPairs(hs) : i <= j

\* the calls that returned a metadata error
MetadataFailures ==
    {c \in Clients : Returned(c) /\ call[c].result.err.kind \in MetadataErrorKinds}

\* C36: headers are validated in list order and within a pair the key
\* before the value: a metadata error is the error of the first pair of the
\* list that is invalid, a key error when that pair's key is invalid
\* whatever its value, a value error only when its key is valid, and it
\* carries that pair's key.
C36_FirstInvalidPairKeyFirst ==
    \A c \in MetadataFailures :
        LET hs == call[c].req.headers
            e == call[c].result.err
        IN  /\ IllegalPairs(hs) # {}
            /\ e.arg = hs[FirstIllegal(hs)][1]
            /\ e.kind = "InvalidMetadataKey" <=> ~MetadataKeyFromStr(hs[FirstIllegal(hs)][1])
            /\ e.kind = "InvalidMetadataValue" =>
                  /\ MetadataKeyFromStr(hs[FirstIllegal(hs)][1])
                  /\ ~MetadataValueFromStr(hs[FirstIllegal(hs)][2])

C36_Witness ==
    \E c \in MetadataFailures :
        /\ IsDynamic(c)
        /\ call[c].req.headers =
              << << <<"x-id">>, <<"1">> >>, << <<"bad", SP, "key">>, <<"a", NL, "b">> >> >>
        /\ call[c].result.err = Error("InvalidMetadataKey", <<"bad", SP, "key">>)

\* the calls whose request was constructed
BuiltCalls == {c \in Clients : call[c].path # <<>>}

\* the positions of the pairs of a header list that have the key
PairsWithKey(hs, k) == {i \in 1..Len(hs) : hs[i][1] = k}

\* the value of the last pair of a header list that has the key
LastValue(hs, k) ==
    hs[CHOOSE i \in PairsWithKey(hs, k) : \A j \in PairsWithKey(hs, k) : j <= i][2]

\* C37: the request of a call carries every key of its header list with a
\* single value, the value of the last pair with that key in list order,
\* and carries nothing else: an earlier value of a repeated key is
\* replaced, not kept beside the later one.
C37_LastValueOfRepeatedKey ==
    \A c \in BuiltCalls :
        LET hs == call[c].req.headers
            md == call[c].metadata
        IN  /\ \A i \in 1..Len(hs) :
                  {p \in md : p[1] = hs[i][1]} = { <<hs[i][1], LastValue(hs, hs[i][1])>> }
            /\ \A p \in md : PairsWithKey(hs, p[1]) # {}

C37_Witness ==
    \E c \in BuiltCalls :
        /\ IsDynamic(c) /\ InTrace(c, "invoke")
        /\ call[c].req.headers =
              << << <<"x-id">>, <<"1">> >>, << <<"x-id">>, <<"2">> >> >>
        /\ call[c].metadata = { << <<"x-id">>, <<"2">> >> }

\* the positions of the failure elements of a collected sequence
Failures(items) == {i \in 1..Len(items) : ~items[i].ok}

\* the calls that returned a collected sequence
CollectedCalls ==
    {c \in ReturnedCalls :
        /\ call[c].result.tag = "Ok"
        /\ call[c].result.resp.variant = "Streaming"
        /\ call[c].result.resp.res.ok}

\* C38: a collected response sequence holds at most one failure element,
\* and a failure element is the last of its sequence: in a Streaming(Ok(list))
\* outcome no success element follows a failure element.
C38_AtMostOneFailureAndLast ==
    \A c \in CollectedCalls :
        LET list == call[c].result.resp.items
        IN  /\ Cardinality(Failures(list)) <= 1
            /\ Failures(list) \subseteq {Len(list)}
            /\ \A i, j \in 1..Len(list) : (~list[i].ok /\ list[j].ok) => j < i

C38_Witness ==
    \E c \in CollectedCalls :
        /\ call[c].pattern = "bidirectional_streaming"
        /\ Len(call[c].result.resp.items) = 2
        /\ Failures(call[c].result.resp.items) = {2}

\* the dynamic calls to a client-streaming or bidirectional method whose
\* payload is the empty array
EmptyArrayCalls ==
    {c \in Clients :
        /\ IsDynamic(c) /\ Resolved(c)
        /\ call[c].method.client_streaming
        /\ call[c].req.body = JArray(<<>>)}

\* C39: an empty array is a valid payload for a client-streaming or
\* bidirectional method: the shape check accepts it, the call is invoked
\* with no request message, and once the transport is ready and the headers
\* are built the outcome is what the peer answers to an empty request
\* stream, never a local error.
C39_EmptyArrayIsAccepted ==
    \A c \in EmptyArrayCalls :
        /\ call[c].result # Err(Error("InvalidJson", <<>>))
        /\ call[c].sent = <<>>
        /\ (Returned(c) /\ call[c].result.tag = "Err") =>
              /\ call[c].result.err.kind \in
                    {"ClientNotReady", "InvalidMetadataKey", "InvalidMetadataValue"}
              /\ call[c].result.err.kind # "ClientNotReady" =>
                    IllegalPairs(call[c].req.headers) # {}
        /\ (Returned(c) /\ InTrace(c, "ready") /\ IllegalPairs(call[c].req.headers) = {}) =>
              /\ InTrace(c, "invoke")
              /\ call[c].result.tag = "Ok"
              /\ OutcomeClass(call[c].result) = "success" =>
                    call[c].result =
                        IF call[c].pattern = "client_streaming"
                        THEN Ok(Unary(ROk(JObject("message", ""))))
                        ELSE Ok(StreamingOk(<<>>))

C39_Witness ==
    \E c \in EmptyArrayCalls :
        /\ Returned(c)
        /\ call[c].pattern = "client_streaming"
        /\ InTrace(c, "invoke")
        /\ call[c].sent = <<>>
        /\ call[c].result = Ok(Unary(ROk(JObject("message", ""))))

====
